---- MODULE Spec2Model ----
(***************************************************************************)
(* Model of the link parsing / rewriting engine of the Pixel Perfect Image *)
(* plugin (link-parser.ts, image-operations.ts, constants.ts).             *)
(*                                                                         *)
(* Text is a sequence of one-character strings.  Regular expressions,      *)
(* String.split, parseInt, decodeURIComponent and encodeURIComponent are   *)
(* modelled by what they compute on such sequences.                        *)
(***************************************************************************)
EXTENDS Integers, Sequences, FiniteSets, TLC

VARIABLES
    \* --- width parameter transform (image-operations.ts) ---
    tParams,      \* the parameter list the transform is applied to
    tBefore,      \* the parameter list before the last transform
    tOp,          \* the last operation: "none", "set", "remove", "query"
    tWidth,       \* newWidth of the last SetWidth
    tQuery,       \* result of the last parseWidth ([nan, val])
    tRepeat,      \* how often the last SetWidth(n) was applied in a row (1, 2 = twice or more)
    \* --- parser / builder on one link (link-parser.ts) ---
    lMain,        \* mainPart given to parseLinkComponents
    lUrl,         \* linkPath given to parseLinkComponents (<<>> = undefined, <<u>> = u)
    lLink,        \* the ImageLink record
    lTransform,   \* the transform applied between parse and build, kind "none" if none
    lBuilt,       \* result of buildLinkPath
    lPc,          \* "idle", "input", "parsed", "built"
    \* --- updateLinks on a document body (link-parser.ts) ---
    rText,        \* text given to updateLinks
    rImage,       \* imageFile
    rDest,        \* metadataCache.getFirstLinkpathDest, as a table path -> file
    rTransform,   \* the transform closure: [kind, n]
    rWiki,        \* text after the wiki-style pass
    rOut,         \* text returned by updateLinks
    rPc,          \* "idle", "ready", "done"
    \* --- updateImageLinks on the active note (link-parser.ts) ---
    fileText,     \* the content of the active note in the vault
    activeFile,   \* workspace.getActiveFile(): NoFile or a path
    markdownView, \* whether workspace.getActiveViewOfType(MarkdownView) gives a view
    imageFileArg, \* imageFile of the running call
    transform,    \* argument of the running call: [kind, n]
    docText,      \* what vault.read gave the running call
    frontmatterEndIndex,  \* -1 or the 0-based offset just after the closing delimiter
    replacedText, \* what updateLinks returned to the running call
    data,         \* what vault.process handed to the callback of the last write
    written,      \* what the callback of the last write returned
    pc,           \* "idle", "read", "process", "returned", "threw"
    result,       \* "none", "true", "false" or the message of the Error thrown
    calls,        \* calls of updateImageLinks so far
    edits,        \* writes to the note by others so far
    \* --- getCurrentImageWidth on the editor's text (image-operations.ts) ---
    qText,        \* editor.getValue()
    qEditor,      \* whether getActiveViewOfType(MarkdownView)?.editor exists
    qImage,       \* imageFile
    qDest,        \* metadataCache.getFirstLinkpathDest, as a table path -> file
    qAsked,       \* the links the scan handed to the resolver: [style, at, path]
    qWidth,       \* customWidth returned ([nan, val], nan = null)
    qPc,          \* "idle", "ready", "done"
    \* --- settings (settings.ts) ---
    enableWheelZoom,
    wheelModifierKey,       \* "Alt", "Ctrl" or "Shift"
    wheelZoomPercentage,
    invertScrollDirection,
    \* --- wheel listeners (events.ts, registerWheelEvents) ---
    isModifierKeyHeld,
    wheelLast,      \* the last DOM event: [type, enabled, down, image]
    wheelInFlight,  \* what handleImageWheel is running for: gate snapshots
    wheelWrites,    \* how often handleImageWheel has written the document
    wheelWriteGate, \* the gate snapshot of the wheel event of the last write
    \* --- resize operations (resizeImage, handleImageWheel, menu) ---
    noteText,       \* the text of the note, in the vault and in the editor
    activeFileNow,  \* workspace.getActiveFile(): NoFile, the note or the image
    markdownViewNow,\* whether getActiveViewOfType(MarkdownView) gives a view
    imgTarget,      \* the image element: "resolved", "unresolved" or "blank"
    diskWidth,      \* the pixel width of the image file on disk
    diskChanges,    \* how often the image file has been changed on disk
    dimensionCache, \* file path -> width
    menuShown,      \* the context menu with its resize items is open
    op,             \* the operation in progress or the last one finished
    opCount,        \* how many operations have been started
    notices,        \* the Notices shown since the operation started
    \* --- readImageDimensions calls in flight ---
    reads,          \* call -> [pc, data, result]
    unloaded,       \* onunload has run
    \* --- wheel events in quick succession ---
    tasks,          \* wheelHandler call -> where it is and its locals
    burstStarted,   \* resizes started since the debounce interval last elapsed
    \* --- listeners registered by registerWheelEvents ---
    listeners,          \* event type -> listeners of the plugin that are active
    wheelEventCleanup,  \* whether this.wheelEventCleanup holds a function
    layoutChanges,      \* layout-change events so far
    \* --- renameImage and its FileNameInputModal ---
    fileName,       \* the image file's name
    modal,          \* the modal: "none", "open" or "closed"
    originalName,   \* the modal's originalName
    inputValue,     \* the value of the modal's input element
    onSubmitCalls,  \* invocations of the modal's onSubmit callback
    promise,        \* the promise of promptForNewName
    renamePc,       \* where renameImage is
    renames,        \* calls of renameImage so far
    renameNotice    \* the Notice renameImage has shown

paramVars == <<tParams, tBefore, tOp, tWidth, tQuery, tRepeat>>
linkVars == <<lMain, lUrl, lLink, lTransform, lBuilt, lPc>>
rewriteVars == <<rText, rImage, rDest, rTransform, rWiki, rOut, rPc>>
pluginVars ==
    <<fileText, activeFile, markdownView, imageFileArg, transform, docText,
      frontmatterEndIndex, replacedText, data, written, pc, result, calls, edits>>
queryVars == <<qText, qEditor, qImage, qDest, qAsked, qWidth, qPc>>
settingsVars ==
    <<enableWheelZoom, wheelModifierKey, wheelZoomPercentage, invertScrollDirection>>
wheelVars == <<isModifierKeyHeld, wheelLast, wheelInFlight, wheelWrites, wheelWriteGate>>
resizeVars ==
    <<noteText, activeFileNow, markdownViewNow, imgTarget, diskWidth, diskChanges,
      dimensionCache, menuShown, op, opCount, notices>>
cacheVars == <<reads, unloaded>>
burstVars == <<tasks, burstStarted>>
listenerVars == <<listeners, wheelEventCleanup, layoutChanges>>
renameVars ==
    <<fileName, modal, originalName, inputValue, onSubmitCalls, promise, renamePc,
      renames, renameNotice>>
extVars ==
    <<queryVars, settingsVars, wheelVars, resizeVars, cacheVars, burstVars, listenerVars,
      renameVars>>
vars == <<paramVars, linkVars, rewriteVars, pluginVars, extVars>>

(***************************************************************************)
(* Strings                                                                 *)
(***************************************************************************)
\* A string literal as a sequence of one-character strings.
S(str) == [i \in 1..Len(str) |-> SubSeq(str, i, i)]

Min(set) == CHOOSE m \in set : \A o \in set : m <= o

Max(set) == CHOOSE m \in set : \A o \in set : m >= o

Range(seq) == {seq[i] : i \in 1..Len(seq)}

\* String.prototype.indexOf(ch, from) with 1-based positions; 0 when absent.
IndexOfChar(text, ch, from) ==
    LET hits == {i \in from..Len(text) : text[i] = ch}
    IN IF hits = {} THEN 0 ELSE Min(hits)

\* Whether text has pat at position i (1-based).
HasAt(text, pat, i) ==
    /\ i >= 1
    /\ i + Len(pat) - 1 <= Len(text)
    /\ \A k \in 1..Len(pat) : text[i + k - 1] = pat[k]

\* String.prototype.indexOf(pat, from), 1-based; 0 when absent.
IndexOfStr(text, pat, from) ==
    LET hits == {i \in from..Len(text) : HasAt(text, pat, i)}
    IN IF hits = {} THEN 0 ELSE Min(hits)

StartsWith(text, pat) == HasAt(text, pat, 1)

\* String.prototype.split(sep) for a one-character separator: every piece.
RECURSIVE SplitFrom(_, _, _)
SplitFrom(text, sep, from) ==
    LET j == IndexOfChar(text, sep, from)
    IN IF j = 0
       THEN <<SubSeq(text, from, Len(text))>>
       ELSE <<SubSeq(text, from, j - 1)>> \o SplitFrom(text, sep, j + 1)

Split(text, sep) == SplitFrom(text, sep, 1)

\* String.prototype.split(sep, limit): the first `limit` pieces, the rest dropped.
SplitLimit(text, sep, limit) ==
    LET all == Split(text, sep)
    IN SubSeq(all, 1, IF Len(all) < limit THEN Len(all) ELSE limit)

\* Array.prototype.join(sep)
RECURSIVE Join(_, _)
Join(parts, sep) ==
    IF parts = <<>> THEN <<>>
    ELSE IF Len(parts) = 1 THEN parts[1]
    ELSE parts[1] \o sep \o Join(Tail(parts), sep)

RECURSIVE Concat(_)
Concat(parts) == IF parts = <<>> THEN <<>> ELSE parts[1] \o Concat(Tail(parts))

WhiteSpace == {" ", "\n", "\t"}

\* String.prototype.trim()
Trim(text) ==
    LET keep == {i \in 1..Len(text) : text[i] \notin WhiteSpace}
    IN IF keep = {} THEN <<>> ELSE SubSeq(text, Min(keep), Max(keep))

(***************************************************************************)
(* Numbers: parseInt and String(n)                                         *)
(***************************************************************************)
DecDigits == S("0123456789")

HexUpper == S("0123456789ABCDEF")

HexLower == S("0123456789abcdef")

IsDecDigit(c) == c \in Range(DecDigits)

IsHexDigit(c) == c \in Range(HexUpper) \cup Range(HexLower)

HexVal(c) ==
    IF c \in Range(HexUpper)
    THEN (CHOOSE i \in 1..16 : HexUpper[i] = c) - 1
    ELSE (CHOOSE i \in 1..16 : HexLower[i] = c) - 1

\* The value of a run of digits in the given radix.
RECURSIVE DigitsValue(_, _, _)
DigitsValue(digits, radix, acc) ==
    IF digits = <<>> THEN acc
    ELSE DigitsValue(Tail(digits), radix, acc * radix + HexVal(digits[1]))

NaN == [nan |-> TRUE, val |-> 0]

Num(v) == [nan |-> FALSE, val |-> v]

\* parseInt(token) with no radix argument: leading white space is skipped, a sign
\* is read, "0x"/"0X" switches to radix 16, then the longest run of digits is
\* read and whatever follows it is ignored; no digit at all gives NaN.
parseInt(token) ==
    LET nonWs == {i \in 1..Len(token) : token[i] \notin WhiteSpace}
        t0 == IF nonWs = {} THEN <<>> ELSE SubSeq(token, Min(nonWs), Len(token))
        signed == t0 # <<>> /\ t0[1] \in {"+", "-"}
        sign == IF signed /\ t0[1] = "-" THEN -1 ELSE 1
        t1 == IF signed THEN Tail(t0) ELSE t0
        hex == Len(t1) >= 2 /\ t1[1] = "0" /\ t1[2] \in {"x", "X"}
        t2 == IF hex THEN SubSeq(t1, 3, Len(t1)) ELSE t1
        isDigit(c) == IF hex THEN IsHexDigit(c) ELSE IsDecDigit(c)
        stops == {i \in 1..Len(t2) : ~isDigit(t2[i])}
        run == IF stops = {} THEN t2 ELSE SubSeq(t2, 1, Min(stops) - 1)
    IN IF run = <<>> THEN NaN
       ELSE Num(sign * DigitsValue(run, IF hex THEN 16 ELSE 10, 0))

\* String(n) for an integer n.
String(n) == S(ToString(n))

(***************************************************************************)
(* Width parameter transform                                               *)
(***************************************************************************)
\* lastParam !== null && !isNaN(parseInt(lastParam))
LastParamIsNumber(params) ==
    /\ Len(params) > 0
    /\ ~parseInt(params[Len(params)]).nan

\* A mutant: the width is always appended.
SetWidthAlwaysAppend(newWidth, params) == Append(params, String(newWidth))

\* The closure updateImageLinkWidth passes to updateImageLinks.
SetWidthTransform(newWidth, params) ==
    IF LastParamIsNumber(params)
    THEN Append(SubSeq(params, 1, Len(params) - 1), String(newWidth))
    ELSE Append(params, String(newWidth))

\* The closure removeImageWidth passes to updateImageLinks.
RemoveWidthTransform(params) ==
    IF LastParamIsNumber(params)
    THEN SubSeq(params, 1, Len(params) - 1)
    ELSE params

\* getCurrentImageWidth's helper parseWidth: null is NaN here.
parseWidth(pipeParams) ==
    IF Len(pipeParams) = 0 THEN NaN
    ELSE parseInt(pipeParams[Len(pipeParams)])

\* A transform closure applied to a parameter list.
ApplyTransform(tr, params) ==
    IF tr.kind = "set" THEN SetWidthTransform(tr.n, params)
    ELSE RemoveWidthTransform(params)

(***************************************************************************)
(* Percent-encoding: decodeURIComponent and encodeURIComponent             *)
(***************************************************************************)
\* The printable ASCII characters of codes 32..95 and 97..126.
AsciiLow == S(" !\"#$%&'()*+,-./0123456789:;<=>?@ABCDEFGHIJKLMNOPQRSTUVWXYZ[\\]^_")

AsciiHigh == S("abcdefghijklmnopqrstuvwxyz{|}~")

\* String.fromCharCode(b) for b < 128; other control characters keep their code.
CharOfCode(b) ==
    IF b = 10 THEN "\n"
    ELSE IF b = 9 THEN "\t"
    ELSE IF b >= 32 /\ b <= 95 THEN AsciiLow[b - 31]
    ELSE IF b >= 97 /\ b <= 126 THEN AsciiHigh[b - 96]
    ELSE "\\x" \o ToString(b)

\* charCodeAt(0) for the characters of the model's documents.
CodeOfChar(c) ==
    IF c = "\n" THEN 10
    ELSE IF c = "\t" THEN 9
    ELSE IF c \in Range(AsciiLow)
    THEN (CHOOSE i \in 1..Len(AsciiLow) : AsciiLow[i] = c) + 31
    ELSE (CHOOSE i \in 1..Len(AsciiHigh) : AsciiHigh[i] = c) + 96

\* The characters encodeURIComponent leaves alone: A-Z a-z 0-9 - _ . ! ~ * ' ( )
Unreserved ==
    Range(S("ABCDEFGHIJKLMNOPQRSTUVWXYZabcdefghijklmnopqrstuvwxyz0123456789-_.!~*'()"))

\* Whether text has a well-formed %XX escape at i.  Every escape the model's
\* documents hold is below %80; a lone byte from %80 on is malformed UTF-8.
EscapeAt(text, i) ==
    /\ text[i] = "%"
    /\ i + 2 <= Len(text)
    /\ IsHexDigit(text[i + 1])
    /\ IsHexDigit(text[i + 2])
    /\ 16 * HexVal(text[i + 1]) + HexVal(text[i + 2]) < 128

\* decodeURIComponent throws URIError on a "%" that starts no well-formed escape.
DecodeThrows(text) ==
    \E i \in 1..Len(text) : text[i] = "%" /\ ~EscapeAt(text, i)

RECURSIVE DecodeFrom(_, _)
DecodeFrom(text, i) ==
    IF i > Len(text) THEN <<>>
    ELSE IF text[i] = "%"
    THEN <<CharOfCode(16 * HexVal(text[i + 1]) + HexVal(text[i + 2]))>>
             \o DecodeFrom(text, i + 3)
    ELSE <<text[i]>> \o DecodeFrom(text, i + 1)

\* try { decodeURIComponent(text) } catch { text }
\* A mutant: a URL that cannot be decoded gives the empty path.
decodeURIComponentOrEmpty(text) ==
    IF DecodeThrows(text) THEN <<>> ELSE DecodeFrom(text, 1)

decodeURIComponentOrRaw(text) ==
    IF DecodeThrows(text) THEN text ELSE DecodeFrom(text, 1)

EncodeChar(c) ==
    IF c \in Unreserved THEN <<c>>
    ELSE LET b == CodeOfChar(c)
         IN <<"%", HexUpper[(b \div 16) + 1], HexUpper[(b % 16) + 1]>>

RECURSIVE encodeURIComponent(_)
encodeURIComponent(text) ==
    IF text = <<>> THEN <<>>
    ELSE EncodeChar(text[1]) \o encodeURIComponent(Tail(text))

(***************************************************************************)
(* parseLinkComponents and buildLinkPath                                   *)
(***************************************************************************)
\* parseLinkComponents(mainPart, linkPath?).  linkPath is <<>> when the argument
\* is absent and <<u>> when it is the text u; `if (linkPath)` is false for both
\* an absent and an empty linkPath.
parseLinkComponents(mainPart, linkPath) ==
    LET given == linkPath # <<>>
        truthy == given /\ linkPath[1] # <<>>
        pathToParse0 == IF given THEN linkPath[1] ELSE mainPart
        pathToParse == IF truthy THEN decodeURIComponentOrRaw(pathToParse0)
                       ELSE pathToParse0
        pieces == SplitLimit(pathToParse, "#", 2)
        pathWithoutHash == pieces[1]
        hash == IF Len(pieces) >= 2 /\ pieces[2] # <<>>
                THEN <<"#">> \o pieces[2] ELSE <<>>
        parts == Split(IF truthy THEN mainPart ELSE pathWithoutHash, "|")
        finalPath == IF truthy THEN pathWithoutHash ELSE parts[1]
    IN [path |-> finalPath,
        hash |-> hash,
        params |-> Tail(parts),
        isWikiStyle |-> ~truthy]

buildLinkPath(link, encode) ==
    LET paramsStr == IF Len(link.params) > 0
                     THEN <<"|">> \o Join(link.params, <<"|">>) ELSE <<>>
        segments == Split(link.path, "/")
        finalPath == IF encode
                     THEN Join([k \in 1..Len(segments) |->
                                   encodeURIComponent(segments[k])], <<"/">>)
                     ELSE link.path
    IN finalPath \o paramsStr \o link.hash

(***************************************************************************)
(* The two link grammars (constants.ts)                                    *)
(***************************************************************************)
\* WIKILINK_IMAGE_REGEX /(!\[\[)([^\]]+)(\]\])/ tried at position i: the position
\* of the match's last character, 0 when there is no match at i.  The interior
\* runs to the first "]"; a shorter run is followed by a character that is not
\* "]", so backtracking finds nothing else.
WikiMatchEnd(text, i) ==
    IF ~HasAt(text, <<"!", "[", "[">>, i) THEN 0
    ELSE LET j == IndexOfChar(text, "]", i + 3)
         IN IF j > i + 3 /\ HasAt(text, <<"]", "]">>, j) THEN j + 1 ELSE 0

\* MARKDOWN_IMAGE_REGEX /!\[([^\]]*)\]\(([^)]+)\)/ tried at position i.
MarkdownMatchEnd(text, i) ==
    IF ~HasAt(text, <<"!", "[">>, i) THEN 0
    ELSE LET j == IndexOfChar(text, "]", i + 2)
         IN IF j = 0 \/ ~HasAt(text, <<"]", "(">>, j) THEN 0
            ELSE LET k == IndexOfChar(text, ")", j + 2)
                 IN IF k > j + 2 THEN k ELSE 0

MatchEnd(style, text, i) ==
    IF style = "wiki" THEN WikiMatchEnd(text, i) ELSE MarkdownMatchEnd(text, i)

\* The matches of a global regex, left to right and not overlapping: [st, en].
RECURSIVE MatchesFrom(_, _, _)
MatchesFrom(style, text, i) ==
    IF i > Len(text) THEN <<>>
    ELSE LET e == MatchEnd(style, text, i)
         IN IF e = 0 THEN MatchesFrom(style, text, i + 1)
            ELSE <<[st |-> i, en |-> e]>> \o MatchesFrom(style, text, e + 1)

Matches(style, text) == MatchesFrom(style, text, 1)

MatchText(text, m) == SubSeq(text, m.st, m.en)

\* Capture group 2 of a wiki match: linkInner.
WikiInner(text, m) == SubSeq(text, m.st + 3, m.en - 2)

\* Capture group 1 of a markdown match: description.
MdDescription(text, m) ==
    SubSeq(text, m.st + 2, IndexOfChar(text, "]", m.st + 2) - 1)

\* Capture group 2 of a markdown match: linkPath.
MdLinkPath(text, m) ==
    SubSeq(text, IndexOfChar(text, "]", m.st + 2) + 2, m.en - 1)

\* The ImageLink parsed from a match of either grammar.
ParsedMatch(style, text, m) ==
    IF style = "wiki" THEN parseLinkComponents(WikiInner(text, m), <<>>)
    ELSE parseLinkComponents(MdDescription(text, m), <<MdLinkPath(text, m)>>)

\* String.prototype.replace(regex, fn): the text with match k replaced by repls[k].
RECURSIVE SpliceFrom(_, _, _, _, _)
SpliceFrom(text, ms, repls, k, cursor) ==
    IF k > Len(ms) THEN SubSeq(text, cursor, Len(text))
    ELSE SubSeq(text, cursor, ms[k].st - 1) \o repls[k]
             \o SpliceFrom(text, ms, repls, k + 1, ms[k].en + 1)

Splice(text, ms, repls) == SpliceFrom(text, ms, repls, 1, 1)

(***************************************************************************)
(* The vault: files and link resolution                                    *)
(***************************************************************************)
\* A file is named by its vault path (TFile.path); NoFile is null.
NoFile == "null"

\* TFile.basename: the file name without its folder and without its extension.
Basename(file) ==
    LET path == S(file)
        slashes == {i \in 1..Len(path) : path[i] = "/"}
        name == IF slashes = {} THEN path
                ELSE SubSeq(path, Max(slashes) + 1, Len(path))
        dots == {i \in 2..Len(name) : name[i] = "."}
    IN IF dots = {} THEN name ELSE SubSeq(name, 1, Max(dots) - 1)

\* metadataCache.getFirstLinkpathDest(linkPath, activeFile.path): the host's
\* resolver, a table from link paths to files; any other path resolves to null.
getFirstLinkpathDest(dest, linkPath) ==
    IF linkPath \in DOMAIN dest THEN dest[linkPath] ELSE NoFile

\* A mutant: the resolved file is not compared with imageFile.
resolveLinkAnyFile(dest, linkPath, imageFile) == getFirstLinkpathDest(dest, linkPath)

\* resolveLink(linkPath, activeFile, imageFile): the file, or null when the path
\* does not resolve or resolves to a file other than imageFile.
resolveLink(dest, linkPath, imageFile) ==
    LET resolvedFile == getFirstLinkpathDest(dest, linkPath)
    IN IF resolvedFile = NoFile THEN NoFile
       ELSE IF resolvedFile # imageFile THEN NoFile
       ELSE resolvedFile

(***************************************************************************)
(* updateLinks                                                             *)
(***************************************************************************)
\* The replacer of the wiki-style pass, for match m of text.
WikiReplacement(text, m, dest, imageFile, tr) ==
    LET link == parseLinkComponents(WikiInner(text, m), <<>>)
    IN IF resolveLink(dest, link.path, imageFile) = NoFile
       THEN MatchText(text, m)
       ELSE <<"!", "[", "[">>
                \o buildLinkPath([link EXCEPT !.params = ApplyTransform(tr, link.params)], FALSE)
                \o <<"]", "]">>

\* A mutant: the whole bracket text is kept as the label, untrimmed, and the
\* transformed parameters are added to it.
MarkdownReplacementKeepBracketText(text, m, dest, imageFile, tr) ==
    LET description == MdDescription(text, m)
        link == parseLinkComponents(description, <<MdLinkPath(text, m)>>)
        params == ApplyTransform(tr, link.params)
    IN IF resolveLink(dest, link.path, imageFile) = NoFile
       THEN MatchText(text, m)
       ELSE <<"!", "[">> \o Join(<<description>> \o params, <<"|">>) \o <<"]", "(">>
                \o buildLinkPath([link EXCEPT !.params = <<>>], TRUE)
                \o <<")">>

\* The replacer of the markdown-style pass, for match m of text.
MarkdownReplacement(text, m, dest, imageFile, tr) ==
    LET description == MdDescription(text, m)
        link == parseLinkComponents(description, <<MdLinkPath(text, m)>>)
        first == Trim(Split(description, "|")[1])
        desc == IF first # <<>> THEN first ELSE Basename(imageFile)
        params == ApplyTransform(tr, link.params)
        newDescription == IF Len(params) > 0
                          THEN Join(<<desc>> \o params, <<"|">>) ELSE desc
    IN IF resolveLink(dest, link.path, imageFile) = NoFile
       THEN MatchText(text, m)
       ELSE <<"!", "[">> \o newDescription \o <<"]", "(">>
                \o buildLinkPath([link EXCEPT !.params = <<>>], TRUE)
                \o <<")">>

Replacement(style, text, m, dest, imageFile, tr) ==
    IF style = "wiki" THEN WikiReplacement(text, m, dest, imageFile, tr)
    ELSE MarkdownReplacement(text, m, dest, imageFile, tr)

\* A mutant: only the first match of a pass is replaced (a regex without /g).
ReplacePassFirstOnly(style, text, dest, imageFile, tr) ==
    LET ms == Matches(style, text)
    IN Splice(text, SubSeq(ms, 1, IF Len(ms) > 0 THEN 1 ELSE 0),
              [k \in 1..(IF Len(ms) > 0 THEN 1 ELSE 0) |->
                  Replacement(style, text, ms[k], dest, imageFile, tr)])

\* text.replace(REGEX, replacer) for one of the two grammars.
ReplacePass(style, text, dest, imageFile, tr) ==
    LET ms == Matches(style, text)
    IN Splice(text, ms,
              [k \in 1..Len(ms) |-> Replacement(style, text, ms[k], dest, imageFile, tr)])

\* updateLinks(text, activeFile, imageFile, transform): the wiki-style pass, then
\* the markdown-style pass on its result.  activeFile only gives the resolver
\* its context and is part of dest.
updateLinks(text, dest, imageFile, tr) ==
    ReplacePass("markdown", ReplacePass("wiki", text, dest, imageFile, tr),
                dest, imageFile, tr)

(***************************************************************************)
(* updateImageLinks: the frontmatter split and the vault.process callback  *)
(***************************************************************************)
FrontmatterOpen == S("---\n")

FrontmatterClose == S("\n---\n")

\* frontmatterEndIndex after the frontmatter detection: -1 when the text does
\* not start with "---\n" or has no "\n---\n" from offset 4 on, else the offset
\* just after the closing delimiter.
FrontmatterEndIndex(text) ==
    IF StartsWith(text, FrontmatterOpen)
    THEN LET j == IndexOfStr(text, FrontmatterClose, 5)
         IN IF j = 0 THEN -1 ELSE (j - 1) + 5
    ELSE -1

\* String.prototype.substring(start, end) with 0-based offsets.
Substring(text, start, end) ==
    SubSeq(text, Min({start, Len(text)}) + 1, Min({end, Len(text)}))

\* contentWithoutFrontmatter
ContentWithoutFrontmatter(text) ==
    LET end == FrontmatterEndIndex(text)
    IN IF end # -1 THEN Substring(text, end, Len(text)) ELSE text

\* The callback given to vault.process: (data) => ...
ProcessCallback(text, endIndex, replaced) ==
    IF endIndex # -1 THEN Substring(text, 0, endIndex) \o replaced ELSE replaced

(***************************************************************************)
(* getCurrentImageWidth                                                    *)
(***************************************************************************)
\* The path the scan hands to the resolver for match m: for a wiki-style link
\* linkInner.split("#", 1)[0].split("|")[0], for a markdown-style link the
\* decoded linkPath.
QueryPath(style, text, m) ==
    IF style = "wiki"
    THEN Split(SplitLimit(WikiInner(text, m), "#", 1)[1], "|")[1]
    ELSE decodeURIComponentOrRaw(MdLinkPath(text, m))

\* pipeParams of match m.
QueryParams(style, text, m) ==
    IF style = "wiki"
    THEN Tail(Split(SplitLimit(WikiInner(text, m), "#", 1)[1], "|"))
    ELSE Tail(Split(MdDescription(text, m), "|"))

\* One of the two for-loops over matchAll, from match k on: the links handed
\* to the resolver and the width found, the loop ending at the first link
\* that resolves to imageFile and has a width.
RECURSIVE QueryScanFrom(_, _, _, _, _, _)
QueryScanFrom(style, text, ms, k, dest, imageFile) ==
    IF k > Len(ms) THEN [asked |-> <<>>, width |-> NaN]
    ELSE LET linkPath == QueryPath(style, text, ms[k])
             here == [style |-> style, at |-> ms[k].st, path |-> linkPath]
             width == IF getFirstLinkpathDest(dest, linkPath) = imageFile
                      THEN parseWidth(QueryParams(style, text, ms[k]))
                      ELSE NaN
         IN IF ~width.nan
            THEN [asked |-> <<here>>, width |-> width]
            ELSE LET rest == QueryScanFrom(style, text, ms, k + 1, dest, imageFile)
                 IN [asked |-> <<here>> \o rest.asked, width |-> rest.width]

\* getCurrentImageWidth(img, activeFile, imageFile) on docText: the wiki-style
\* loop, and the markdown-style loop when that found no width.
getCurrentImageWidth(docTextNow, dest, imageFile) ==
    LET wiki == QueryScanFrom("wiki", docTextNow, Matches("wiki", docTextNow), 1,
                              dest, imageFile)
        md == QueryScanFrom("markdown", docTextNow, Matches("markdown", docTextNow), 1,
                            dest, imageFile)
    IN IF ~wiki.width.nan THEN wiki
       ELSE [asked |-> wiki.asked \o md.asked, width |-> md.width]

(***************************************************************************)
(* Wheel listeners: isModifierKeyMatch, isModifierKeyStillHeld             *)
(***************************************************************************)
\* String.prototype.toLowerCase on the key names and settings that occur.
ToLowerCase ==
    ("Alt" :> "alt") @@ ("Option" :> "option") @@ ("Control" :> "control")
        @@ ("Ctrl" :> "ctrl") @@ ("Shift" :> "shift") @@ ("a" :> "a")
        @@ ("Meta" :> "meta")

\* isModifierKeyMatch(evt) for evt.key = eventKey.
isModifierKeyMatch(modifierKey, evtKey) ==
    LET key == ToLowerCase[modifierKey]
        eventKey == ToLowerCase[evtKey]
    IN CASE key = "alt" -> eventKey = "alt" \/ eventKey = "option"
         [] key = "ctrl" -> eventKey = "ctrl" \/ eventKey = "control"
         [] key = "shift" -> eventKey = "shift"
         [] OTHER -> FALSE

\* A mutant: the wheel event is not asked whether the modifier is down.
isModifierKeyStillHeldUnasked(modifierKey, evt) == TRUE

\* isModifierKeyStillHeld(evt) for a wheel event.
isModifierKeyStillHeld(modifierKey, evt) ==
    CASE ToLowerCase[modifierKey] = "alt" -> evt.altKey
      [] ToLowerCase[modifierKey] = "ctrl" -> evt.ctrlKey
      [] ToLowerCase[modifierKey] = "shift" -> evt.shiftKey
      [] OTHER -> FALSE

(***************************************************************************)
(* Resizing: resizeImage, handleImageWheel                                 *)
(***************************************************************************)
Max2(a, b) == IF a >= b THEN a ELSE b

Min2(a, b) == IF a <= b THEN a ELSE b

Abs(a) == IF a < 0 THEN -a ELSE a

\* A mutant: the quotient is cut off, not rounded.
MathRoundTruncating(num, den) == num \div den

\* Math.round(num / den) for den > 0: the floor of num/den + 1/2.
MathRound(num, den) == (2 * num + den) \div (2 * den)

\* resizeImage: newWidth
resizeNewWidth(width, size, isAbsolute) ==
    IF isAbsolute THEN size ELSE MathRound(width * size, 100)

\* A mutant: every wheel event moves by the whole percentage.
stepSizeUnscaled(currentWidth, percentage, deltaY) ==
    Max2(1, MathRound(currentWidth * percentage, 100))

\* handleImageWheel: stepSize, with deltaScale = min(1, |deltaY| / 10) in
\* tenths, for whole deltaY.
stepSize(currentWidth, percentage, deltaY) ==
    LET deltaScaleTenths == Min2(10, Abs(deltaY))
    IN Max2(1, MathRound(currentWidth * percentage * deltaScaleTenths, 1000))

\* A mutant: invertScrollDirection is not looked at.
wheelNewWidthNeverInverted(currentWidth, percentage, deltaY, invert) ==
    IF deltaY < 0
    THEN currentWidth + stepSize(currentWidth, percentage, deltaY)
    ELSE Max2(1, currentWidth - stepSize(currentWidth, percentage, deltaY))

\* handleImageWheel: newWidth
wheelNewWidth(currentWidth, percentage, deltaY, invert) ==
    LET scrollingUp == deltaY < 0
        shouldIncrease == IF invert THEN ~scrollingUp ELSE scrollingUp
    IN IF shouldIncrease
       THEN currentWidth + stepSize(currentWidth, percentage, deltaY)
       ELSE Max2(1, currentWidth - stepSize(currentWidth, percentage, deltaY))

(***************************************************************************)
(* SPECIFICATIONS                                                          *)
(***************************************************************************)
\* The longest parameter list a transform starts from.
MaxParams == 2

\* The most items a document body is put together from.
MaxItems == 2

\* Sequences over a set, up to a length.
SeqsUpTo(set, n) == UNION {[1..k -> set] : k \in 0..n}

(***************************************************************************)
(* SpecParams: the width transforms applied to parameter lists             *)
(***************************************************************************)
\* Parameter tokens: widths, attribute keywords, and tokens that only start
\* with digits or only look numeric.
ParamTokens ==
    {S("200"), S("50"), S("0"), S("-5"), S("align-left"), S("left"), S(""),
     S("200px"), S("2col"), S("x100")}

\* Widths a resize writes.
Widths == {300, 120, 1}

IdleParams ==
    /\ tParams = <<>>
    /\ tBefore = <<>>
    /\ tOp = "none"
    /\ tWidth = 0
    /\ tQuery = NaN
    /\ tRepeat = 0

IdleLink ==
    /\ lMain = <<>>
    /\ lUrl = <<>>
    /\ lLink = parseLinkComponents(<<>>, <<>>)
    /\ lTransform = [kind |-> "none", n |-> 0]
    /\ lBuilt = <<>>
    /\ lPc = "idle"

IdleRewrite ==
    /\ rText = <<>>
    /\ rImage = NoFile
    /\ rDest = <<>>
    /\ rTransform = [kind |-> "none", n |-> 0]
    /\ rWiki = <<>>
    /\ rOut = <<>>
    /\ rPc = "idle"

IdlePlugin ==
    /\ fileText = <<>>
    /\ activeFile = NoFile
    /\ markdownView = FALSE
    /\ imageFileArg = NoFile
    /\ transform = [kind |-> "none", n |-> 0]
    /\ docText = <<>>
    /\ frontmatterEndIndex = -1
    /\ replacedText = <<>>
    /\ data = <<>>
    /\ written = <<>>
    /\ pc = "idle"
    /\ result = "none"
    /\ calls = 0
    /\ edits = 0

IdleQuery ==
    /\ qText = <<>>
    /\ qEditor = FALSE
    /\ qImage = NoFile
    /\ qDest = <<>>
    /\ qAsked = <<>>
    /\ qWidth = NaN
    /\ qPc = "idle"

\* DEFAULT_SETTINGS
IdleSettings ==
    /\ enableWheelZoom = TRUE
    /\ wheelModifierKey = "Alt"
    /\ wheelZoomPercentage = 20
    /\ invertScrollDirection = FALSE

NoGate == [enabled |-> FALSE, held |-> FALSE, down |-> FALSE, image |-> FALSE]

NoEvent == [type |-> "none", enabled |-> FALSE, down |-> FALSE, image |-> FALSE]

IdleWheel ==
    /\ isModifierKeyHeld = FALSE
    /\ wheelLast = NoEvent
    /\ wheelInFlight = {}
    /\ wheelWrites = 0
    /\ wheelWriteGate = NoGate

EmptyCache == [path \in {} |-> 0]

NoOp ==
    [kind |-> "none", pc |-> "done", size |-> 0, isAbsolute |-> FALSE, deltaY |-> 0,
     textBefore |-> <<>>, cacheBefore |-> EmptyCache, readFailed |-> FALSE,
     width |-> 0, diskAtRead |-> 0, newWidth |-> 0]

IdleResize ==
    /\ noteText = <<>>
    /\ activeFileNow = NoFile
    /\ markdownViewNow = FALSE
    /\ imgTarget = "blank"
    /\ diskWidth = 0
    /\ diskChanges = 0
    /\ dimensionCache = EmptyCache
    /\ menuShown = FALSE
    /\ op = NoOp
    /\ opCount = 0
    /\ notices = {}

IdleCache ==
    /\ reads = <<>>
    /\ unloaded = FALSE

IdleBurst ==
    /\ tasks = <<>>
    /\ burstStarted = 0

\* The listeners after onload: registerWheelEvents has run once.
ListenerTypes == {"keydown", "keyup", "blur", "wheel"}

IdleListeners ==
    /\ listeners = [type \in ListenerTypes |-> 1]
    /\ wheelEventCleanup = TRUE
    /\ layoutChanges = 0

\* A promise that is not settled, and the renaming parts at rest.
Pending == [state |-> "pending", isNull |-> TRUE, name |-> <<>>]

IdleRename ==
    /\ fileName = <<>>
    /\ modal = "none"
    /\ originalName = <<>>
    /\ inputValue = <<>>
    /\ onSubmitCalls = 0
    /\ promise = Pending
    /\ renamePc = "idle"
    /\ renames = 0
    /\ renameNotice = ""

IdleExt ==
    /\ IdleQuery /\ IdleSettings /\ IdleWheel /\ IdleResize /\ IdleCache /\ IdleBurst
    /\ IdleListeners
    /\ IdleRename

InitParams ==
    /\ tParams \in SeqsUpTo(ParamTokens, MaxParams)
    /\ tBefore = tParams
    /\ tOp = "none"
    /\ tWidth = 0
    /\ tQuery = NaN
    /\ tRepeat = 0
    /\ IdleLink
    /\ IdleRewrite
    /\ IdlePlugin
    /\ IdleExt

\* updateImageLinkWidth's closure applied to the parameters of a link.
DoSetWidth(newWidth) ==
    /\ tBefore' = tParams
    /\ tParams' = SetWidthTransform(newWidth, tParams)
    /\ tOp' = "set"
    /\ tWidth' = newWidth
    /\ tRepeat' = IF tOp = "set" /\ tWidth = newWidth THEN 2 ELSE 1
    /\ UNCHANGED <<tQuery, linkVars, rewriteVars, pluginVars, extVars>>

\* removeImageWidth's closure applied to the parameters of a link.
DoRemoveWidth ==
    /\ tBefore' = tParams
    /\ tParams' = RemoveWidthTransform(tParams)
    /\ tOp' = "remove"
    /\ tRepeat' = 0
    /\ UNCHANGED <<tWidth, tQuery, linkVars, rewriteVars, pluginVars, extVars>>

\* getCurrentImageWidth's parseWidth applied to the parameters of a link.
DoParseWidth ==
    /\ tQuery' = parseWidth(tParams)
    /\ tBefore' = tParams
    /\ tOp' = "query"
    /\ tRepeat' = 0
    /\ UNCHANGED <<tParams, tWidth, linkVars, rewriteVars, pluginVars, extVars>>

NextParams ==
    \/ \E newWidth \in Widths : DoSetWidth(newWidth)
    \/ DoRemoveWidth
    \/ DoParseWidth

SpecParams == InitParams /\ [][NextParams]_vars

(***************************************************************************)
(* SpecLink: parseLinkComponents, a transform, buildLinkPath on one link   *)
(***************************************************************************)
WikiPaths == {S("a.png"), S("dir/a.png"), S("")}

WikiParamStrings == {S(""), S("|200"), S("|left|200"), S("||200"), S("|")}

WikiFragments == {S(""), S("#h"), S("#h#k"), S("#"), S("#h|5")}

\* Interiors of wiki links: one or more characters other than "]".
WikiInteriors ==
    {p \o q \o f : p \in WikiPaths, q \in WikiParamStrings, f \in WikiFragments}
        \ {<<>>}

\* Bracket texts of markdown links.
Descriptions == {S("alt"), S(""), S("alt|50"), S(" alt |left|50")}

\* URLs of markdown links: one or more characters other than ")".
Urls ==
    {S("a.png"), S("My%20Photo.png"), S("My Photo.png"), S("a.png#sec"),
     S("dir/a%20b.png"), S("a%23b.png"), S("dir%2Fa.png"), S("a%281%29.png"),
     S("a.png#my%20sec"), S("a.png#h#k"), S("100%.png")}

LinkTransforms == {[kind |-> "set", n |-> 300], [kind |-> "remove", n |-> 0]}

InitLink ==
    /\ \/ lMain \in WikiInteriors /\ lUrl = <<>>
       \/ lMain \in Descriptions /\ lUrl \in {<<u>> : u \in Urls}
    /\ lLink = parseLinkComponents(<<>>, <<>>)
    /\ lTransform = [kind |-> "none", n |-> 0]
    /\ lBuilt = <<>>
    /\ lPc = "input"
    /\ IdleParams
    /\ IdleRewrite
    /\ IdlePlugin
    /\ IdleExt

\* const link = parseLinkComponents(linkInner) / (description, linkPath)
LParse ==
    /\ lPc = "input"
    /\ lLink' = parseLinkComponents(lMain, lUrl)
    /\ lPc' = "parsed"
    /\ UNCHANGED <<lMain, lUrl, lTransform, lBuilt, paramVars, rewriteVars, pluginVars, extVars>>

\* link.params = transform(link.params)
LTransform(tr) ==
    /\ lPc = "parsed"
    /\ lTransform.kind = "none"
    /\ lLink' = [lLink EXCEPT !.params = ApplyTransform(tr, lLink.params)]
    /\ lTransform' = tr
    /\ UNCHANGED <<lMain, lUrl, lBuilt, lPc, paramVars, rewriteVars, pluginVars, extVars>>

\* buildLinkPath(link) for a wiki link; buildLinkPath({...link, params: []}, true)
\* for the URL of a markdown link.
LBuild ==
    /\ lPc = "parsed"
    /\ lBuilt' = IF lLink.isWikiStyle THEN buildLinkPath(lLink, FALSE)
                 ELSE buildLinkPath([lLink EXCEPT !.params = <<>>], TRUE)
    /\ lPc' = "built"
    /\ UNCHANGED <<lMain, lUrl, lLink, lTransform, paramVars, rewriteVars, pluginVars, extVars>>

NextLink ==
    \/ LParse
    \/ \E tr \in LinkTransforms : LTransform(tr)
    \/ LBuild

SpecLink == InitLink /\ [][NextLink]_vars

(***************************************************************************)
(* SpecRewrite: updateLinks on document bodies                             *)
(***************************************************************************)
\* The pieces document bodies are put together from.
DocItems ==
    {S("![[a.png]]"), S("![[a.png|50]]"), S("![[b.png|50]]"),
     S("![[a.png|left|50#h]]"), S("![[zz.png|50]]"), S("![[dir/a.png|50]]"),
     S("![[|50]]"),
     S("![alt|50](a.png)"), S("![alt](b.png)"), S("![](a.png)"),
     S("![ alt |left|50](a.png)"), S("![alt|50](My%20Photo.png)"),
     S("![  |50](a.png)"),
     S("![alt](%zz.png)"), S("![alt|50](50%.png#h)"),
     S(" and "),
     S("![x](![[a.png|50]])"), S("![x](a.png![[a.png|50]])")}

\* The end-to-end scenario of the specification.
ExampleBody == S("![[a.png|50]] and ![alt|50](a.png)")

Docs == {Concat(items) : items \in SeqsUpTo(DocItems, MaxItems)} \cup {ExampleBody}

\* The image files a resize is about.
Images == {"a.png", "My Photo.png"}

\* A vault in which every link path names the file one expects.
SaneDest ==
    (S("a.png") :> "a.png") @@ (S("b.png") :> "b.png")
        @@ (S("dir/a.png") :> "dir/a.png") @@ (S("My Photo.png") :> "My Photo.png")

\* The note the links are resolved from.
ActiveNote == "note.md"

\* A vault whose resolver answers for the empty path with the note itself.
EmptyPathDest == SaneDest @@ (S("") :> ActiveNote)

DestTables == {SaneDest, EmptyPathDest}

RewriteTransforms == {[kind |-> "set", n |-> 120], [kind |-> "remove", n |-> 0]}

InitRewrite ==
    /\ rText \in Docs
    /\ rImage \in Images
    /\ rDest \in DestTables
    /\ rTransform \in RewriteTransforms
    /\ rWiki = <<>>
    /\ rOut = <<>>
    /\ rPc = "ready"
    /\ IdleParams
    /\ IdleLink
    /\ IdlePlugin
    /\ IdleExt

\* One call of updateLinks.
UpdateLinks ==
    /\ rPc = "ready"
    /\ rWiki' = ReplacePass("wiki", rText, rDest, rImage, rTransform)
    /\ rOut' = updateLinks(rText, rDest, rImage, rTransform)
    /\ rPc' = "done"
    /\ UNCHANGED <<rText, rImage, rDest, rTransform, paramVars, linkVars, pluginVars, extVars>>

NextRewrite == UpdateLinks

SpecRewrite == InitRewrite /\ [][NextRewrite]_vars

(***************************************************************************)
(* SpecEmptyPath: updateLinks on links without a path, the resolver's      *)
(* answer for the empty path left open                                     *)
(***************************************************************************)
EmptyPathItems ==
    {S("![[|200]]"), S("![[#heading]]"), S("![alt|50](#h)"), S("![[ |50]]"),
     S("![[a.png|50]]"), S("![alt](b.png)"), S(" and ")}

EmptyPathDocs == {Concat(items) : items \in SeqsUpTo(EmptyPathItems, MaxItems)}

\* getFirstLinkpathDest("", sourcePath) is the vault's business: nothing, the
\* note the links are in, or any file.
EmptyPathDestTables ==
    {SaneDest} \cup {SaneDest @@ (S("") :> file) : file \in {ActiveNote} \cup Images}

InitEmptyPath ==
    /\ rText \in EmptyPathDocs
    /\ rImage \in Images
    /\ rDest \in EmptyPathDestTables
    /\ rTransform \in RewriteTransforms
    /\ rWiki = <<>>
    /\ rOut = <<>>
    /\ rPc = "ready"
    /\ IdleParams
    /\ IdleLink
    /\ IdlePlugin
    /\ IdleExt

NextEmptyPath == UpdateLinks

SpecEmptyPath == InitEmptyPath /\ [][NextEmptyPath]_vars

(***************************************************************************)
(* Spec: updateImageLinks on the active note, with other writers           *)
(***************************************************************************)
\* The most calls of updateImageLinks in a run.
MaxCalls == 2

\* The most writes to the note by others in a run.
MaxEdits == 2

\* Contents of the note: frontmatter of two lengths, a link inside the
\* frontmatter, an opening delimiter without a close, no frontmatter.
NoteTexts ==
    {S("---\nw: 1\n---\n![[a.png|50]]"),
     S("---\nwidth: 300\n---\n![[a.png|50]]"),
     S("---\nc: ![[a.png|50]]\n---\n![alt|50](a.png)"),
     S("---\nw: 1\n![[a.png|50]]"),
     S("![[a.png|50]] and ![alt|50](a.png)"),
     S("![[b.png|50]]")}

\* How the resolver answers for the note's links.
NoteDest == EmptyPathDest

Init ==
    /\ fileText \in NoteTexts
    /\ activeFile \in {NoFile, ActiveNote, "a.png"}
    /\ markdownView \in BOOLEAN
    /\ imageFileArg = NoFile
    /\ transform = [kind |-> "none", n |-> 0]
    /\ docText = <<>>
    /\ frontmatterEndIndex = -1
    /\ replacedText = <<>>
    /\ data = <<>>
    /\ written = <<>>
    /\ pc = "idle"
    /\ result = "none"
    /\ calls = 0
    /\ edits = 0
    /\ IdleParams
    /\ IdleLink
    /\ IdleRewrite
    /\ IdleExt

\* updateImageLinks up to its first await: the three guards, then vault.read
\* is started.
CallUpdateImageLinks(image, tr) ==
    /\ pc = "idle"
    /\ calls < MaxCalls
    /\ calls' = calls + 1
    /\ imageFileArg' = image
    /\ transform' = tr
    /\ IF activeFile = NoFile
       THEN pc' = "threw" /\ result' = "No active file, cannot update link."
       ELSE IF activeFile = image
       THEN pc' = "returned" /\ result' = "false"
       ELSE IF ~markdownView
       THEN pc' = "threw" /\ result' = "No active MarkdownView to update."
       ELSE pc' = "read" /\ result' = "none"
    /\ UNCHANGED <<fileText, activeFile, markdownView, docText, frontmatterEndIndex,
                   replacedText, data, written, edits,
                   paramVars, linkVars, rewriteVars, extVars>>

\* A mutant: vault.process is started whether the body has changed or not.
VaultReadAlwaysProcess ==
    /\ pc = "read"
    /\ docText' = fileText
    /\ frontmatterEndIndex' = FrontmatterEndIndex(fileText)
    /\ replacedText' = updateLinks(ContentWithoutFrontmatter(fileText), NoteDest,
                                   imageFileArg, transform)
    /\ pc' = "process"
    /\ result' = "none"
    /\ UNCHANGED <<fileText, activeFile, markdownView, imageFileArg, transform,
                   data, written, calls, edits,
                   paramVars, linkVars, rewriteVars, extVars>>

\* vault.read resolves: the frontmatter split, updateLinks on the rest, and
\* either the return of false or the start of vault.process.
VaultRead ==
    /\ pc = "read"
    /\ docText' = fileText
    /\ frontmatterEndIndex' = FrontmatterEndIndex(fileText)
    /\ LET contentWithoutFrontmatter == ContentWithoutFrontmatter(fileText)
           replaced == updateLinks(contentWithoutFrontmatter, NoteDest,
                                   imageFileArg, transform)
       IN /\ replacedText' = replaced
          /\ IF replaced # contentWithoutFrontmatter
             THEN pc' = "process" /\ result' = "none"
             ELSE pc' = "returned" /\ result' = "false"
    /\ UNCHANGED <<fileText, activeFile, markdownView, imageFileArg, transform,
                   data, written, calls, edits,
                   paramVars, linkVars, rewriteVars, extVars>>

\* vault.process runs the callback on the note's content of that moment and
\* stores what it returns; updateImageLinks returns true.
VaultProcess ==
    /\ pc = "process"
    /\ data' = fileText
    /\ written' = ProcessCallback(fileText, frontmatterEndIndex, replacedText)
    /\ fileText' = written'
    /\ pc' = "returned"
    /\ result' = "true"
    /\ UNCHANGED <<activeFile, markdownView, imageFileArg, transform, docText,
                   frontmatterEndIndex, replacedText, calls, edits,
                   paramVars, linkVars, rewriteVars, extVars>>

\* vault.process rejects: the catch block logs and throws.
VaultProcessFails ==
    /\ pc = "process"
    /\ pc' = "threw"
    /\ result' = "Failed to update image link"
    /\ UNCHANGED <<fileText, activeFile, markdownView, imageFileArg, transform,
                   docText, frontmatterEndIndex, replacedText, data, written,
                   calls, edits, paramVars, linkVars, rewriteVars, extVars>>

\* The caller has the outcome; the next call can start.
Settle ==
    /\ pc \in {"returned", "threw"}
    /\ pc' = "idle"
    /\ UNCHANGED <<fileText, activeFile, markdownView, imageFileArg, transform,
                   docText, frontmatterEndIndex, replacedText, data, written,
                   result, calls, edits, paramVars, linkVars, rewriteVars, extVars>>

\* Somebody else (the editor, sync, another plugin) writes the note.
ExternalEdit(text) ==
    /\ edits < MaxEdits
    /\ text # fileText
    /\ fileText' = text
    /\ edits' = edits + 1
    /\ UNCHANGED <<activeFile, markdownView, imageFileArg, transform, docText,
                   frontmatterEndIndex, replacedText, data, written, pc, result,
                   calls, paramVars, linkVars, rewriteVars, extVars>>

Next ==
    \/ \E image \in Images, tr \in RewriteTransforms :
           CallUpdateImageLinks(image, tr)
    \/ VaultRead
    \/ VaultProcess
    \/ VaultProcessFails
    \/ Settle
    \/ \E text \in NoteTexts : ExternalEdit(text)

Spec == Init /\ [][Next]_vars

(***************************************************************************)
(* SpecQuery: getCurrentImageWidth on the text of the editor               *)
(***************************************************************************)
\* The pieces the bodies of the queried documents are put together from.
QueryItems ==
    {S("![[a.png]]"), S("![[a.png|50]]"), S("![[b.png|70]]"),
     S("![[a.png|left|80#h]]"),
     S("![alt|60](a.png)"), S("![alt](a.png)"), S("![alt|90](a.png#sec)"),
     S("![alt|40](My%20Photo.png)"),
     S(" and ")}

\* What the queried documents start with: nothing, a frontmatter block, a
\* frontmatter block with an image link in it.
QueryFrontmatters ==
    {<<>>, S("---\nw: 1\n---\n"), S("---\nc: ![[a.png|30]]\n---\n")}

QueryDocs ==
    {f \o Concat(items) : f \in QueryFrontmatters,
                          items \in SeqsUpTo(QueryItems, MaxItems)}

InitQuery ==
    /\ qText \in QueryDocs
    /\ qEditor \in BOOLEAN
    /\ qImage \in Images
    /\ qDest \in DestTables
    /\ qAsked = <<>>
    /\ qWidth = NaN
    /\ qPc = "ready"
    /\ IdleParams
    /\ IdleLink
    /\ IdleRewrite
    /\ IdlePlugin
    /\ IdleSettings
    /\ IdleWheel
    /\ IdleResize
    /\ IdleCache
    /\ IdleBurst
    /\ IdleListeners
    /\ IdleRename

\* One call of getCurrentImageWidth: null without an editor, else the scan.
GetCurrentImageWidth ==
    /\ qPc = "ready"
    /\ LET scan == getCurrentImageWidth(qText, qDest, qImage)
       IN IF ~qEditor
          THEN qAsked' = <<>> /\ qWidth' = NaN
          ELSE qAsked' = scan.asked /\ qWidth' = scan.width
    /\ qPc' = "done"
    /\ UNCHANGED <<qText, qEditor, qImage, qDest, settingsVars, wheelVars, resizeVars, cacheVars, burstVars, listenerVars, renameVars,
                   paramVars, linkVars, rewriteVars, pluginVars>>

NextQuery == GetCurrentImageWidth

SpecQuery == InitQuery /\ [][NextQuery]_vars

(***************************************************************************)
(* SpecWheel: the listeners registerWheelEvents installs                   *)
(***************************************************************************)
\* The most document writes by wheel events in a run.
MaxWheelWrites == 2

\* evt.key of keyboard events.
EventKeys == {"Alt", "Option", "Control", "Shift", "Meta", "a"}

ModifierKeys == {"Alt", "Ctrl", "Shift"}

\* Wheel events: the modifier flags and whether findImageElement(ev.target)
\* gives an image.
WheelEvents ==
    [altKey : BOOLEAN, ctrlKey : BOOLEAN, shiftKey : BOOLEAN, onImage : BOOLEAN]

\* Whether the configured modifier is down in a wheel event.
ModifierDown(evt) ==
    CASE wheelModifierKey = "Alt" -> evt.altKey
      [] wheelModifierKey = "Ctrl" -> evt.ctrlKey
      [] wheelModifierKey = "Shift" -> evt.shiftKey

InitWheel ==
    /\ enableWheelZoom \in BOOLEAN
    /\ wheelModifierKey \in ModifierKeys
    /\ wheelZoomPercentage = 20
    /\ invertScrollDirection = FALSE
    /\ IdleWheel
    /\ IdleResize
    /\ IdleCache
    /\ IdleBurst
    /\ IdleListeners
    /\ IdleRename
    /\ IdleParams
    /\ IdleLink
    /\ IdleRewrite
    /\ IdlePlugin
    /\ IdleQuery

\* keydownHandler
Keydown(key) ==
    /\ isModifierKeyHeld' =
           IF isModifierKeyMatch(wheelModifierKey, key) THEN TRUE ELSE isModifierKeyHeld
    /\ wheelLast' = [NoEvent EXCEPT !.type = "keydown"]
    /\ UNCHANGED <<wheelInFlight, wheelWrites, wheelWriteGate, settingsVars, queryVars, resizeVars, cacheVars, burstVars, listenerVars, renameVars,
                   paramVars, linkVars, rewriteVars, pluginVars>>

\* keyupHandler
Keyup(key) ==
    /\ isModifierKeyHeld' =
           IF isModifierKeyMatch(wheelModifierKey, key) THEN FALSE ELSE isModifierKeyHeld
    /\ wheelLast' = [NoEvent EXCEPT !.type = "keyup"]
    /\ UNCHANGED <<wheelInFlight, wheelWrites, wheelWriteGate, settingsVars, queryVars, resizeVars, cacheVars, burstVars, listenerVars, renameVars,
                   paramVars, linkVars, rewriteVars, pluginVars>>

\* blurHandler
Blur ==
    /\ isModifierKeyHeld' = IF isModifierKeyHeld THEN FALSE ELSE isModifierKeyHeld
    /\ wheelLast' = [NoEvent EXCEPT !.type = "blur"]
    /\ UNCHANGED <<wheelInFlight, wheelWrites, wheelWriteGate, settingsVars, queryVars, resizeVars, cacheVars, burstVars, listenerVars, renameVars,
                   paramVars, linkVars, rewriteVars, pluginVars>>

\* wheelHandler up to its await: the gate, and handleImageWheel started for the
\* events that pass it.
Wheel(ev) ==
    LET gate == [enabled |-> enableWheelZoom, held |-> isModifierKeyHeld,
                 down |-> ModifierDown(ev), image |-> ev.onImage]
    IN /\ wheelLast' = [type |-> "wheel", enabled |-> enableWheelZoom,
                        down |-> ModifierDown(ev), image |-> ev.onImage]
       /\ IF ~enableWheelZoom \/ ~isModifierKeyHeld
          THEN UNCHANGED <<isModifierKeyHeld, wheelInFlight>>
          ELSE IF ~isModifierKeyStillHeld(wheelModifierKey, ev)
          THEN isModifierKeyHeld' = FALSE /\ UNCHANGED wheelInFlight
          ELSE IF ~ev.onImage
          THEN UNCHANGED <<isModifierKeyHeld, wheelInFlight>>
          ELSE /\ wheelInFlight' = wheelInFlight \cup {gate}
               /\ UNCHANGED isModifierKeyHeld
       /\ UNCHANGED <<wheelWrites, wheelWriteGate, settingsVars, queryVars, resizeVars, cacheVars, burstVars, listenerVars, renameVars,
                      paramVars, linkVars, rewriteVars, pluginVars>>

\* handleImageWheel runs to its end for an event that passed the gate, and
\* has written the document (updateImageLinkWidth) or has not.
HandleImageWheelEnds(gate, wrote) ==
    /\ gate \in wheelInFlight
    /\ wheelInFlight' = wheelInFlight \ {gate}
    /\ IF wrote
       THEN /\ wheelWrites < MaxWheelWrites
            /\ wheelWrites' = wheelWrites + 1
            /\ wheelWriteGate' = gate
       ELSE UNCHANGED <<wheelWrites, wheelWriteGate>>
    /\ UNCHANGED <<isModifierKeyHeld, wheelLast, settingsVars, queryVars, resizeVars, cacheVars, burstVars, listenerVars, renameVars,
                   paramVars, linkVars, rewriteVars, pluginVars>>

\* The "Enable mousewheel zoom" toggle of the settings tab.
SetEnableWheelZoom(value) ==
    /\ enableWheelZoom' = value
    /\ wheelLast' = [NoEvent EXCEPT !.type = "settings"]
    /\ UNCHANGED <<wheelModifierKey, wheelZoomPercentage, invertScrollDirection,
                   isModifierKeyHeld, wheelInFlight, wheelWrites, wheelWriteGate,
                   queryVars, resizeVars, cacheVars, burstVars, listenerVars, renameVars, paramVars, linkVars, rewriteVars, pluginVars>>

\* The "Modifier key" dropdown of the settings tab.
SetWheelModifierKey(value) ==
    /\ wheelModifierKey' = value
    /\ wheelLast' = [NoEvent EXCEPT !.type = "settings"]
    /\ UNCHANGED <<enableWheelZoom, wheelZoomPercentage, invertScrollDirection,
                   isModifierKeyHeld, wheelInFlight, wheelWrites, wheelWriteGate,
                   queryVars, resizeVars, cacheVars, burstVars, listenerVars, renameVars, paramVars, linkVars, rewriteVars, pluginVars>>

NextWheel ==
    \/ \E key \in EventKeys : Keydown(key)
    \/ \E key \in EventKeys : Keyup(key)
    \/ Blur
    \/ \E ev \in WheelEvents : Wheel(ev)
    \/ \E gate \in wheelInFlight, wrote \in BOOLEAN : HandleImageWheelEnds(gate, wrote)
    \/ \E value \in BOOLEAN : SetEnableWheelZoom(value)
    \/ \E value \in ModifierKeys : SetWheelModifierKey(value)

SpecWheel == InitWheel /\ [][NextWheel]_vars

(***************************************************************************)
(* SpecResize: menu and wheel resizes of one image, one after another      *)
(***************************************************************************)
\* The most operations in a run, and the most changes of the image on disk.
MaxOps == 2

MaxDiskChanges == 1

\* The image the operations are about.
ImgFile == "a.png"

\* Pixel widths the image file can have.
ActualWidths == {1000, 10}

\* The percentages of the "Resize to N%" menu items.
RESIZE_PERCENTAGES == {100, 50, 25}

\* The customResizeWidths setting as the user has filled it in.
CustomResizeWidths == {600}

\* deltaY of the wheel events.
WheelDeltas == {-100, -5, 0, 5, 100}

\* The wheelZoomPercentage slider positions looked at.
ZoomPercentages == {20, 50}

ResizeDocs ==
    {S("![[a.png]]"), S("![[a.png|500]]"), S("![x|0](a.png)"),
     S("![[a.png|left|7]] ![[b.png|300]]"), S("---\nt: 1\n---\n![x|1](a.png)"),
     S("![[a.png|-5]]")}

InitResize ==
    /\ noteText \in ResizeDocs
    /\ activeFileNow \in {NoFile, ActiveNote, ImgFile}
    /\ markdownViewNow \in BOOLEAN
    /\ markdownViewNow => activeFileNow = ActiveNote
    /\ imgTarget \in {"resolved", "unresolved", "blank"}
    /\ diskWidth \in ActualWidths
    /\ diskChanges = 0
    /\ dimensionCache = EmptyCache
    /\ menuShown = FALSE
    /\ op = NoOp
    /\ opCount = 0
    /\ notices = {}
    /\ enableWheelZoom = TRUE
    /\ wheelModifierKey = "Alt"
    /\ wheelZoomPercentage \in ZoomPercentages
    /\ invertScrollDirection \in BOOLEAN
    /\ IdleCache
    /\ IdleBurst
    /\ IdleListeners
    /\ IdleRename
    /\ IdleWheel
    /\ IdleQuery
    /\ IdleParams
    /\ IdleLink
    /\ IdleRewrite
    /\ IdlePlugin

\* getImageFileWithErrorHandling: whether it gives a result, and its Notice.
ImageFileFound == activeFileNow # NoFile /\ imgTarget = "resolved"

ImageFileNotices ==
    IF activeFileNow # NoFile /\ imgTarget = "unresolved"
    THEN {"Could not locate image file"} ELSE {}

\* updateImageLinkWidth(imgFile, newWidth): what updateImageLinks throws, and
\* the text of the note afterwards.
UpdateImageLinkWidth(newWidth) ==
    IF activeFileNow = NoFile
    THEN [thrown |-> "No active file, cannot update link.", text |-> noteText]
    ELSE IF activeFileNow = ImgFile
    THEN [thrown |-> "", text |-> noteText]
    ELSE IF ~markdownViewNow
    THEN [thrown |-> "No active MarkdownView to update.", text |-> noteText]
    ELSE [thrown |-> "",
          text |-> ProcessCallback(noteText, FrontmatterEndIndex(noteText),
                       updateLinks(ContentWithoutFrontmatter(noteText), NoteDest,
                                   ImgFile, [kind |-> "set", n |-> newWidth]))]

\* An operation starts and runs up to the first await it stays at:
\* addResizeMenuItems ("open"), a click on a resize item ("menu": resizeImage
\* under createMenuClickHandler) or handleImageWheel for a wheel event that
\* has passed the gate ("wheel"). readImageDimensions gives the cached
\* entry or starts reading the file.
StartOp(kind, size, isAbsolute, deltaY) ==
    LET o == [NoOp EXCEPT !.kind = kind, !.size = size, !.isAbsolute = isAbsolute,
                          !.deltaY = deltaY, !.textBefore = noteText,
                          !.cacheBefore = dimensionCache]
    IN /\ op.pc = "done"
       /\ opCount < MaxOps
       /\ kind = "menu" => menuShown
       /\ opCount' = opCount + 1
       /\ IF kind = "wheel" /\ (~enableWheelZoom \/ ~markdownViewNow)
          THEN /\ op' = o
               /\ notices' = {}
               /\ UNCHANGED menuShown
          ELSE IF ~ImageFileFound
          THEN /\ op' = o
               /\ notices' = ImageFileNotices \cup
                      (IF kind = "menu" THEN {"Could not find the image file"} ELSE {})
               /\ menuShown' = (kind = "open")
          ELSE IF ImgFile \in DOMAIN dimensionCache
          THEN /\ op' = [o EXCEPT !.pc = "measured", !.width = dimensionCache[ImgFile],
                                  !.diskAtRead = diskWidth]
               /\ notices' = {}
               /\ menuShown' = (kind = "wheel" /\ menuShown)
          ELSE /\ op' = [o EXCEPT !.pc = "reading"]
               /\ notices' = {}
               /\ menuShown' = (kind = "wheel" /\ menuShown)
       /\ UNCHANGED <<noteText, activeFileNow, markdownViewNow, imgTarget, diskWidth,
                      diskChanges, dimensionCache, settingsVars, wheelVars, queryVars,
                      cacheVars, burstVars, listenerVars, renameVars, paramVars, linkVars, rewriteVars, pluginVars>>

\* readImageDimensions after its awaits: the entry is stored and returned,
\* or the read has failed and the error goes to the caller's catch.
ReadEnds(ok) ==
    /\ op.pc = "reading"
    /\ IF ok
       THEN /\ dimensionCache' = (ImgFile :> diskWidth) @@ dimensionCache
            /\ op' = [op EXCEPT !.pc = "measured", !.width = diskWidth,
                                !.diskAtRead = diskWidth]
            /\ UNCHANGED notices
       ELSE /\ op' = [op EXCEPT !.pc = "done", !.readFailed = TRUE]
            /\ notices' = CASE op.kind = "menu" -> {"read error"}
                             [] op.kind = "wheel" -> {"Failed to resize image"}
                             [] OTHER -> {}
            /\ UNCHANGED dimensionCache
    /\ UNCHANGED <<noteText, activeFileNow, markdownViewNow, imgTarget, diskWidth,
                   diskChanges, menuShown, opCount, settingsVars, wheelVars, queryVars,
                   cacheVars, burstVars, listenerVars, renameVars, paramVars, linkVars, rewriteVars, pluginVars>>

\* handleImageWheel: currentWidth
wheelCurrentWidth(customWidth, width) ==
    IF customWidth.nan THEN width ELSE customWidth.val

\* The operation goes on with the width readImageDimensions gave, up to its
\* call of updateImageLinkWidth: the menu is filled, resizeImage computes
\* newWidth, or handleImageWheel computes newWidth from the current width
\* and ends when the two are the same.
ComputeNewWidth ==
    /\ op.pc = "measured"
    /\ CASE op.kind = "open" ->
             /\ menuShown' = TRUE
             /\ op' = [op EXCEPT !.pc = "done"]
        [] op.kind = "menu" ->
             /\ op' = [op EXCEPT !.pc = "updating",
                                 !.newWidth = resizeNewWidth(op.width, op.size, op.isAbsolute)]
             /\ UNCHANGED menuShown
        [] op.kind = "wheel" ->
             /\ \E currentWidth \in
                     {wheelCurrentWidth(
                          IF markdownViewNow
                          THEN getCurrentImageWidth(noteText, NoteDest, ImgFile).width
                          ELSE NaN, op.width)} :
                   \E newWidth \in {wheelNewWidth(currentWidth, wheelZoomPercentage,
                                                  op.deltaY, invertScrollDirection)} :
                       op' = [op EXCEPT !.newWidth = newWidth,
                                        !.pc = IF newWidth # currentWidth
                                               THEN "updating" ELSE "done"]
             /\ UNCHANGED menuShown
    /\ UNCHANGED <<noteText, activeFileNow, markdownViewNow, imgTarget, diskWidth,
                   diskChanges, dimensionCache, opCount, notices, settingsVars, wheelVars,
                   queryVars, cacheVars, burstVars, listenerVars, renameVars, paramVars, linkVars, rewriteVars, pluginVars>>

\* updateImageLinkWidth(imgFile, newWidth) runs to its end; what it throws
\* is shown by the caller's catch (createMenuClickHandler, wheelHandler).
UpdateWidth ==
    /\ op.pc = "updating"
    /\ \E out \in {UpdateImageLinkWidth(op.newWidth)} :
           /\ noteText' = out.text
           /\ notices' = IF out.thrown = "" THEN {}
                          ELSE IF op.kind = "menu" THEN {out.thrown}
                          ELSE {"Failed to resize image"}
    /\ op' = [op EXCEPT !.pc = "done"]
    /\ UNCHANGED <<activeFileNow, markdownViewNow, imgTarget, diskWidth, diskChanges,
                   dimensionCache, menuShown, opCount, settingsVars, wheelVars, queryVars,
                   cacheVars, burstVars, listenerVars, renameVars, paramVars, linkVars, rewriteVars, pluginVars>>

\* The image file is replaced on disk by one of another width.
DiskChange(width) ==
    /\ diskChanges < MaxDiskChanges
    /\ width # diskWidth
    /\ diskWidth' = width
    /\ diskChanges' = diskChanges + 1
    /\ UNCHANGED <<noteText, activeFileNow, markdownViewNow, imgTarget, dimensionCache,
                   menuShown, op, opCount, notices, settingsVars, wheelVars, queryVars,
                   cacheVars, burstVars, listenerVars, renameVars, paramVars, linkVars, rewriteVars, pluginVars>>

NextResize ==
    \/ StartOp("open", 0, FALSE, 0)
    \/ \E size \in RESIZE_PERCENTAGES : StartOp("menu", size, FALSE, 0)
    \/ \E size \in CustomResizeWidths : StartOp("menu", size, TRUE, 0)
    \/ \E deltaY \in WheelDeltas : StartOp("wheel", 0, FALSE, deltaY)
    \/ \E ok \in BOOLEAN : ReadEnds(ok)
    \/ ComputeNewWidth
    \/ UpdateWidth
    \/ \E width \in ActualWidths : DiskChange(width)

SpecResize == InitResize /\ [][NextResize]_vars

(***************************************************************************)
(* SpecCache: calls of readImageDimensions for one file, side by side      *)
(***************************************************************************)
\* The most calls of readImageDimensions in a run.
MaxReads == 3

NoRead == [pc |-> "idle", data |-> 0, result |-> 0]

InitCache ==
    /\ reads = [call \in 1..MaxReads |-> NoRead]
    /\ unloaded = FALSE
    /\ diskWidth \in ActualWidths
    /\ diskChanges = 0
    /\ dimensionCache = EmptyCache
    /\ noteText = <<>>
    /\ activeFileNow = NoFile
    /\ markdownViewNow = FALSE
    /\ imgTarget = "blank"
    /\ menuShown = FALSE
    /\ op = NoOp
    /\ opCount = 0
    /\ notices = {}
    /\ IdleSettings
    /\ IdleWheel
    /\ IdleBurst
    /\ IdleListeners
    /\ IdleRename
    /\ IdleQuery
    /\ IdleParams
    /\ IdleLink
    /\ IdleRewrite
    /\ IdlePlugin

\* readImageDimensions(file) up to its first await: the cached entry is
\* returned, or vault.readBinary is started.
CallReadImageDimensions(call) ==
    /\ ~unloaded
    /\ reads[call].pc = "idle"
    /\ \A earlier \in 1..(call - 1) : reads[earlier].pc # "idle"
    /\ reads' = [reads EXCEPT ![call] =
           IF ImgFile \in DOMAIN dimensionCache
           THEN [pc |-> "done", data |-> 0, result |-> dimensionCache[ImgFile]]
           ELSE [pc |-> "readBinary", data |-> 0, result |-> 0]]
    /\ UNCHANGED <<unloaded, resizeVars, settingsVars, wheelVars, queryVars, burstVars, listenerVars, renameVars,
                   paramVars, linkVars, rewriteVars, pluginVars>>

\* vault.readBinary settles: the bytes of the file as it is on disk now, or
\* an error that is logged and thrown on.
ReadBinaryEnds(call, ok) ==
    /\ reads[call].pc = "readBinary"
    /\ reads' = [reads EXCEPT ![call] =
           IF ok THEN [pc |-> "loadImage", data |-> diskWidth, result |-> 0]
           ELSE [pc |-> "failed", data |-> 0, result |-> 0]]
    /\ UNCHANGED <<unloaded, resizeVars, settingsVars, wheelVars, queryVars, burstVars, listenerVars, renameVars,
                   paramVars, linkVars, rewriteVars, pluginVars>>

\* loadImage settles: the dimensions of the bytes read are stored under the
\* file's path and returned, or the error is logged and thrown on.
LoadImageEnds(call, ok) ==
    /\ reads[call].pc = "loadImage"
    /\ IF ok
       THEN /\ dimensionCache' = (ImgFile :> reads[call].data) @@ dimensionCache
            /\ reads' = [reads EXCEPT ![call] =
                   [pc |-> "done", data |-> reads[call].data, result |-> reads[call].data]]
       ELSE /\ reads' = [reads EXCEPT ![call] = [pc |-> "failed", data |-> 0, result |-> 0]]
            /\ UNCHANGED dimensionCache
    /\ UNCHANGED <<unloaded, noteText, activeFileNow, markdownViewNow, imgTarget,
                   diskWidth, diskChanges, menuShown, op, opCount, notices,
                   settingsVars, wheelVars, queryVars, burstVars, listenerVars, renameVars,
                   paramVars, linkVars, rewriteVars, pluginVars>>

\* onunload
Onunload ==
    /\ ~unloaded
    /\ unloaded' = TRUE
    /\ isModifierKeyHeld' = FALSE
    /\ dimensionCache' = EmptyCache
    /\ UNCHANGED <<reads, noteText, activeFileNow, markdownViewNow, imgTarget,
                   diskWidth, diskChanges, menuShown, op, opCount, notices,
                   wheelLast, wheelInFlight, wheelWrites, wheelWriteGate,
                   settingsVars, queryVars, burstVars, listenerVars, renameVars, paramVars, linkVars, rewriteVars, pluginVars>>

\* The image file is replaced on disk while calls may be in flight.
DiskChangeDuringReads(width) ==
    /\ diskChanges < MaxDiskChanges
    /\ width # diskWidth
    /\ diskWidth' = width
    /\ diskChanges' = diskChanges + 1
    /\ UNCHANGED <<reads, unloaded, noteText, activeFileNow, markdownViewNow, imgTarget,
                   dimensionCache, menuShown, op, opCount, notices,
                   settingsVars, wheelVars, queryVars, burstVars, listenerVars, renameVars,
                   paramVars, linkVars, rewriteVars, pluginVars>>

NextCache ==
    \/ \E call \in 1..MaxReads : CallReadImageDimensions(call)
    \/ \E call \in 1..MaxReads, ok \in BOOLEAN : ReadBinaryEnds(call, ok)
    \/ \E call \in 1..MaxReads, ok \in BOOLEAN : LoadImageEnds(call, ok)
    \/ Onunload
    \/ \E width \in ActualWidths : DiskChangeDuringReads(width)

SpecCache == InitCache /\ [][NextCache]_vars

(***************************************************************************)
(* SPECIFICATION SpecBurst: wheel events in quick succession               *)
(*                                                                         *)
(* Every wheel event that passes the gate of wheelHandler starts its own   *)
(* handleImageWheel, which runs from await to await next to the ones       *)
(* started before it.  The time since the last wheel event is the only     *)
(* thing a debounce would look at; IntervalElapses is that time passing.   *)
(***************************************************************************)
MaxBurst == 2

BurstDocs == {S("![[a.png|500]]"), S("---\nt: 1\n---\n![x|100](a.png)")}

BurstEvents ==
    [altKey : BOOLEAN, ctrlKey : {FALSE}, shiftKey : {FALSE}, onImage : BOOLEAN,
     deltaY : {-100, 100}]

NoTask ==
    [pc |-> "idle", deltaY |-> 0, width |-> 0, newWidth |-> 0, docText |-> <<>>,
     frontmatterEndIndex |-> -1, replacedText |-> <<>>]

InitBurst ==
    /\ tasks = [task \in 1..MaxBurst |-> NoTask]
    /\ burstStarted = 0
    /\ noteText \in BurstDocs
    /\ activeFileNow = ActiveNote
    /\ markdownViewNow = TRUE
    /\ imgTarget = "resolved"
    /\ diskWidth = 1000
    /\ diskChanges = 0
    /\ dimensionCache \in {EmptyCache, ImgFile :> 1000}
    /\ menuShown = FALSE
    /\ op = NoOp
    /\ opCount = 0
    /\ notices = {}
    /\ enableWheelZoom = TRUE
    /\ wheelModifierKey = "Alt"
    /\ wheelZoomPercentage \in ZoomPercentages
    /\ invertScrollDirection = FALSE
    /\ isModifierKeyHeld = TRUE
    /\ wheelLast = NoEvent
    /\ wheelInFlight = {}
    /\ wheelWrites = 0
    /\ wheelWriteGate = NoGate
    /\ IdleCache
    /\ IdleListeners
    /\ IdleRename
    /\ IdleQuery
    /\ IdleParams
    /\ IdleLink
    /\ IdleRewrite
    /\ IdlePlugin

burstFrame ==
    <<activeFileNow, markdownViewNow, imgTarget, diskWidth, diskChanges, menuShown, op,
      opCount, wheelLast, wheelInFlight, wheelWrites, wheelWriteGate, settingsVars,
      queryVars, cacheVars, listenerVars, renameVars, paramVars, linkVars, rewriteVars, pluginVars>>

\* wheelHandler for one event, up to the first await of the handleImageWheel
\* it calls: the gate, then handleImageWheel's own two early returns.
WheelInBurst(task, ev) ==
    /\ tasks[task].pc = "idle"
    /\ \A earlier \in 1..(task - 1) : tasks[earlier].pc # "idle"
    /\ IF ~enableWheelZoom \/ ~isModifierKeyHeld
       THEN UNCHANGED <<isModifierKeyHeld, tasks, burstStarted>>
       ELSE IF ~isModifierKeyStillHeld(wheelModifierKey, ev)
       THEN isModifierKeyHeld' = FALSE /\ UNCHANGED <<tasks, burstStarted>>
       ELSE IF ~ev.onImage
       THEN UNCHANGED <<isModifierKeyHeld, tasks, burstStarted>>
       ELSE /\ tasks' = [tasks EXCEPT ![task] =
                            [NoTask EXCEPT !.deltaY = ev.deltaY,
                                           !.pc = IF enableWheelZoom /\ markdownViewNow
                                                  THEN "started" ELSE "done"]]
            /\ burstStarted' = burstStarted + 1
            /\ UNCHANGED isModifierKeyHeld
    /\ UNCHANGED <<noteText, dimensionCache, notices, burstFrame>>

\* keydownHandler for the configured modifier: the key is pressed again.
KeydownInBurst ==
    /\ ~isModifierKeyHeld
    /\ isModifierKeyHeld' = isModifierKeyMatch(wheelModifierKey, "Alt")
    /\ UNCHANGED <<tasks, burstStarted, noteText, dimensionCache, notices, burstFrame>>

\* handleImageWheel after getImageFileWithErrorHandling: readImageDimensions
\* gives the cached entry or starts reading the file.
TaskFindsFile(task) ==
    /\ tasks[task].pc = "started"
    /\ tasks' = [tasks EXCEPT ![task] =
                    IF ~ImageFileFound THEN [@ EXCEPT !.pc = "done"]
                    ELSE IF ImgFile \in DOMAIN dimensionCache
                    THEN [@ EXCEPT !.pc = "measured", !.width = dimensionCache[ImgFile]]
                    ELSE [@ EXCEPT !.pc = "reading"]]
    /\ notices' = notices \cup (IF ImageFileFound THEN {} ELSE ImageFileNotices)
    /\ UNCHANGED <<burstStarted, isModifierKeyHeld, noteText, dimensionCache, burstFrame>>

\* readImageDimensions after its awaits, as in ReadEnds.
TaskReadEnds(task, ok) ==
    /\ tasks[task].pc = "reading"
    /\ IF ok
       THEN /\ dimensionCache' = (ImgFile :> diskWidth) @@ dimensionCache
            /\ tasks' = [tasks EXCEPT ![task] = [@ EXCEPT !.pc = "measured",
                                                          !.width = diskWidth]]
            /\ UNCHANGED notices
       ELSE /\ tasks' = [tasks EXCEPT ![task] = [@ EXCEPT !.pc = "done"]]
            /\ notices' = notices \cup {"Failed to resize image"}
            /\ UNCHANGED dimensionCache
    /\ UNCHANGED <<burstStarted, isModifierKeyHeld, noteText, burstFrame>>

\* handleImageWheel from getCurrentImageWidth to the vault.read of the
\* updateImageLinks it calls (no await in between).
TaskComputes(task) ==
    /\ tasks[task].pc = "measured"
    /\ \E currentWidth \in
            {wheelCurrentWidth(getCurrentImageWidth(noteText, NoteDest, ImgFile).width,
                               tasks[task].width)} :
          \E newWidth \in {wheelNewWidth(currentWidth, wheelZoomPercentage,
                                         tasks[task].deltaY, invertScrollDirection)} :
              tasks' = [tasks EXCEPT ![task] =
                           [@ EXCEPT !.newWidth = newWidth,
                                     !.pc = IF newWidth # currentWidth
                                            THEN "read" ELSE "done"]]
    /\ UNCHANGED <<burstStarted, isModifierKeyHeld, noteText, dimensionCache, notices,
                   burstFrame>>

\* updateImageLinks from the end of vault.read to its call of vault.process.
TaskVaultRead(task) ==
    /\ tasks[task].pc = "read"
    /\ \E replaced \in
            {updateLinks(ContentWithoutFrontmatter(noteText), NoteDest, ImgFile,
                         [kind |-> "set", n |-> tasks[task].newWidth])} :
          tasks' = [tasks EXCEPT ![task] =
                       [@ EXCEPT !.docText = noteText,
                                 !.frontmatterEndIndex = FrontmatterEndIndex(noteText),
                                 !.replacedText = replaced,
                                 !.pc = IF replaced # ContentWithoutFrontmatter(noteText)
                                        THEN "process" ELSE "done"]]
    /\ UNCHANGED <<burstStarted, isModifierKeyHeld, noteText, dimensionCache, notices,
                   burstFrame>>

\* vault.process runs the callback on the file as it is now.
TaskVaultProcess(task) ==
    /\ tasks[task].pc = "process"
    /\ noteText' = ProcessCallback(noteText, tasks[task].frontmatterEndIndex,
                                   tasks[task].replacedText)
    /\ tasks' = [tasks EXCEPT ![task] = [@ EXCEPT !.pc = "done"]]
    /\ UNCHANGED <<burstStarted, isModifierKeyHeld, dimensionCache, notices, burstFrame>>

\* No wheel event arrives for the length of the debounce interval.
IntervalElapses ==
    /\ burstStarted > 0
    /\ burstStarted' = 0
    /\ UNCHANGED <<tasks, isModifierKeyHeld, noteText, dimensionCache, notices, burstFrame>>

NextBurst ==
    \/ \E task \in 1..MaxBurst : \E ev \in BurstEvents : WheelInBurst(task, ev)
    \/ KeydownInBurst
    \/ \E task \in 1..MaxBurst : TaskFindsFile(task)
    \/ \E task \in 1..MaxBurst : \E ok \in BOOLEAN : TaskReadEnds(task, ok)
    \/ \E task \in 1..MaxBurst : TaskComputes(task)
    \/ \E task \in 1..MaxBurst : TaskVaultRead(task)
    \/ \E task \in 1..MaxBurst : TaskVaultProcess(task)
    \/ IntervalElapses

SpecBurst == InitBurst /\ [][NextBurst]_vars

(***************************************************************************)
(* SPECIFICATION SpecListeners: the listeners of registerWheelEvents       *)
(*                                                                         *)
(* SpecWheel with the listeners counted: a handler runs only while a       *)
(* listener of its type is active, layout-change runs registerWheelEvents  *)
(* again, and unloading the plugin runs onunload and then what             *)
(* registerDomEvent, registerEvent and register have recorded.             *)
(***************************************************************************)
MaxLayoutChanges == 2

\* registerWheelEvents(window): wheelEventCleanup aborts the wheel listener
\* of the previous call; keydown, keyup and blur are registered with
\* registerDomEvent and the wheel listener with its own AbortController.
registerWheelEvents(active) ==
    [type \in ListenerTypes |->
        IF type = "wheel"
        THEN (IF wheelEventCleanup THEN 0 ELSE active[type]) + 1
        ELSE active[type] + 1]

\* The workspace's layout-change event, while the plugin is loaded.
LayoutChange ==
    /\ ~unloaded
    /\ layoutChanges < MaxLayoutChanges
    /\ layoutChanges' = layoutChanges + 1
    /\ listeners' = registerWheelEvents(listeners)
    /\ wheelEventCleanup' = TRUE
    /\ wheelLast' = [NoEvent EXCEPT !.type = "layout-change"]
    /\ UNCHANGED <<isModifierKeyHeld, wheelInFlight, wheelWrites, wheelWriteGate, tasks,
                   burstStarted, unloaded, reads, settingsVars, queryVars, renameVars, resizeVars,
                   paramVars, linkVars, rewriteVars, pluginVars>>

\* The plugin is unloaded: onunload, then every callback the component has
\* recorded (the listeners of registerDomEvent, the layout-change handler,
\* the abort of every wheel listener's controller).
Unload ==
    /\ ~unloaded
    /\ unloaded' = TRUE
    /\ isModifierKeyHeld' = FALSE
    /\ dimensionCache' = EmptyCache
    /\ listeners' = [type \in ListenerTypes |-> 0]
    /\ wheelLast' = [NoEvent EXCEPT !.type = "unload"]
    /\ UNCHANGED <<wheelEventCleanup, layoutChanges, wheelInFlight, wheelWrites,
                   wheelWriteGate, tasks, burstStarted, reads, noteText, activeFileNow,
                   markdownViewNow, imgTarget, diskWidth, diskChanges, menuShown, op,
                   opCount, notices, settingsVars, queryVars, renameVars, paramVars, linkVars,
                   rewriteVars, pluginVars>>

NextListeners ==
    \/ \E key \in EventKeys : listeners["keydown"] > 0 /\ Keydown(key)
    \/ \E key \in EventKeys : listeners["keyup"] > 0 /\ Keyup(key)
    \/ listeners["blur"] > 0 /\ Blur
    \/ \E ev \in WheelEvents : listeners["wheel"] > 0 /\ Wheel(ev)
    \/ \E gate \in wheelInFlight, wrote \in BOOLEAN : HandleImageWheelEnds(gate, wrote)
    \/ \E value \in BOOLEAN : SetEnableWheelZoom(value)
    \/ \E value \in ModifierKeys : SetWheelModifierKey(value)
    \/ LayoutChange
    \/ Unload

SpecListeners == InitWheel /\ [][NextListeners]_vars

(***************************************************************************)
(* SPECIFICATION SpecSetQuery: updateImageLinkWidth, then                  *)
(* getCurrentImageWidth on the text it has written                         *)
(***************************************************************************)
\* The widths updateImageLinkWidth is called with.
SetQueryWidths == {120, 7}

InitSetQuery ==
    /\ qText \in QueryDocs
    /\ qEditor = TRUE
    /\ qImage = "a.png"
    /\ qDest = SaneDest
    /\ qAsked = <<>>
    /\ qWidth = NaN
    /\ qPc = "fresh"
    /\ rText = <<>>
    /\ rImage = NoFile
    /\ rDest = <<>>
    /\ rTransform = [kind |-> "none", n |-> 0]
    /\ rWiki = <<>>
    /\ rOut = <<>>
    /\ rPc = "idle"
    /\ IdleParams
    /\ IdleLink
    /\ IdlePlugin
    /\ IdleSettings
    /\ IdleWheel
    /\ IdleResize
    /\ IdleCache
    /\ IdleBurst
    /\ IdleListeners
    /\ IdleRename

\* updateImageLinkWidth(imageFile, newWidth) from its call to its end, in a
\* note that is the active file of a markdown view and that nobody else
\* writes; the editor then shows what was written.
CallUpdateImageLinkWidth(newWidth) ==
    /\ qPc = "fresh"
    /\ rText' = qText
    /\ rImage' = qImage
    /\ rDest' = qDest
    /\ rTransform' = [kind |-> "set", n |-> newWidth]
    /\ \E replaced \in {updateLinks(ContentWithoutFrontmatter(qText), qDest, qImage,
                                    [kind |-> "set", n |-> newWidth])} :
          /\ rOut' = replaced
          /\ qText' = IF replaced # ContentWithoutFrontmatter(qText)
                      THEN ProcessCallback(qText, FrontmatterEndIndex(qText), replaced)
                      ELSE qText
    /\ rPc' = "done"
    /\ qPc' = "ready"
    /\ UNCHANGED <<qEditor, qImage, qDest, qAsked, qWidth, rWiki, settingsVars, wheelVars,
                   resizeVars, cacheVars, burstVars, listenerVars, renameVars, paramVars, linkVars,
                   pluginVars>>

NextSetQuery ==
    \/ \E newWidth \in SetQueryWidths : CallUpdateImageLinkWidth(newWidth)
    \/ GetCurrentImageWidth

SpecSetQuery == InitSetQuery /\ [][NextSetQuery]_vars

(***************************************************************************)
(* SPECIFICATION SpecRename: renameImage and the rename modal              *)
(***************************************************************************)
MaxRenames == 2

\* The names the image starts with and what the user leaves in the input.
FileNames == {S("a.png"), S("My Photo.png")}

TypedNames == {S(""), S(" "), S("a.png"), S("b.png"), S(" b.png ")}

\* FileNameInputModal.result: set to null by its initialiser and never
\* assigned again.
ModalResult == "null"

Resolved(name) == [state |-> "resolved", isNull |-> FALSE, name |-> name]

ResolvedNull == [state |-> "resolved", isNull |-> TRUE, name |-> <<>>]

\* resolve(result) of promptForNewName's promise: a settled promise stays
\* as it is.
Resolve(p, value) == IF p.state = "pending" THEN value ELSE p

\* What onClose does to the promise and to the count of onSubmit calls:
\* onSubmit(null) when this.result === undefined.
OnCloseCallsOnSubmit == ModalResult = "undefined"

InitRename ==
    /\ fileName \in FileNames
    /\ modal = "none"
    /\ originalName = <<>>
    /\ inputValue = <<>>
    /\ onSubmitCalls = 0
    /\ promise = Pending
    /\ renamePc = "idle"
    /\ renames = 0
    /\ renameNotice = ""
    /\ IdleParams
    /\ IdleLink
    /\ IdleRewrite
    /\ IdlePlugin
    /\ IdleQuery
    /\ IdleSettings
    /\ IdleWheel
    /\ IdleResize
    /\ IdleCache
    /\ IdleBurst
    /\ IdleListeners

renameFrame ==
    <<queryVars, settingsVars, wheelVars, resizeVars, cacheVars, burstVars, listenerVars,
      paramVars, linkVars, rewriteVars, pluginVars>>

\* renameImage(file) up to its await: promptForNewName makes the promise
\* and opens the modal, whose input holds the file's name.  The menu item
\* can be used again once the modal of the call before is closed.
RenameImage ==
    /\ \/ renamePc \in {"idle", "returned"}
       \/ renamePc = "prompting" /\ modal = "closed" /\ promise.state = "pending"
    /\ renames < MaxRenames
    /\ renames' = renames + 1
    /\ modal' = "open"
    /\ originalName' = fileName
    /\ inputValue' = fileName
    /\ onSubmitCalls' = 0
    /\ promise' = Pending
    /\ renamePc' = "prompting"
    /\ renameNotice' = ""
    /\ UNCHANGED <<fileName, renameFrame>>

\* The user edits the input.
TypeName(value) ==
    /\ modal = "open"
    /\ value # inputValue
    /\ inputValue' = value
    /\ UNCHANGED <<fileName, modal, originalName, onSubmitCalls, promise, renamePc,
                   renames, renameNotice, renameFrame>>

\* The form's submit listener, close() and onClose.
SubmitForm ==
    /\ modal = "open"
    /\ LET newName == Trim(inputValue)
           submitted == IF newName # <<>> /\ newName # originalName
                        THEN Resolved(newName) ELSE ResolvedNull
       IN /\ promise' = Resolve(Resolve(promise, submitted),
                                IF OnCloseCallsOnSubmit THEN ResolvedNull ELSE promise)
          /\ onSubmitCalls' = onSubmitCalls + 1 + (IF OnCloseCallsOnSubmit THEN 1 ELSE 0)
    /\ modal' = "closed"
    /\ UNCHANGED <<fileName, originalName, inputValue, renamePc, renames, renameNotice,
                   renameFrame>>

\* The Cancel button's click listener, close() and onClose.
CancelClick ==
    /\ modal = "open"
    /\ promise' = Resolve(promise, ResolvedNull)
    /\ onSubmitCalls' = onSubmitCalls + 1 + (IF OnCloseCallsOnSubmit THEN 1 ELSE 0)
    /\ modal' = "closed"
    /\ UNCHANGED <<fileName, originalName, inputValue, renamePc, renames, renameNotice,
                   renameFrame>>

\* The modal is dismissed (Escape, a click outside, the close button):
\* close() and onClose only.
Dismiss ==
    /\ modal = "open"
    /\ promise' = IF OnCloseCallsOnSubmit THEN Resolve(promise, ResolvedNull) ELSE promise
    /\ onSubmitCalls' = onSubmitCalls + (IF OnCloseCallsOnSubmit THEN 1 ELSE 0)
    /\ modal' = "closed"
    /\ UNCHANGED <<fileName, originalName, inputValue, renamePc, renames, renameNotice,
                   renameFrame>>

\* renameImage after its await of promptForNewName: it returns when there
\* is no new name, else it calls fileManager.renameFile.
PromptResolves ==
    /\ renamePc = "prompting"
    /\ promise.state = "resolved"
    /\ renamePc' = IF promise.isNull \/ promise.name = <<>> THEN "returned" ELSE "renaming"
    /\ UNCHANGED <<fileName, modal, originalName, inputValue, onSubmitCalls, promise,
                   renames, renameNotice, renameFrame>>

\* fileManager.renameFile settles; renameImage shows its Notice and returns.
RenameFileEnds(ok) ==
    /\ renamePc = "renaming"
    /\ IF ok
       THEN fileName' = promise.name /\ renameNotice' = "Image renamed successfully"
       ELSE renameNotice' = "Failed to rename image" /\ UNCHANGED fileName
    /\ renamePc' = "returned"
    /\ UNCHANGED <<modal, originalName, inputValue, onSubmitCalls, promise, renames,
                   renameFrame>>

NextRename ==
    \/ RenameImage
    \/ \E value \in TypedNames : TypeName(value)
    \/ SubmitForm
    \/ CancelClick
    \/ Dismiss
    \/ PromptResolves
    \/ \E ok \in BOOLEAN : RenameFileEnds(ok)

SpecRename == InitRename /\ [][NextRename]_vars

(***************************************************************************)
(* PROPERTIES                                                              *)
(***************************************************************************)
Last(seq) == seq[Len(seq)]

Front(seq) == SubSeq(seq, 1, Len(seq) - 1)

\* A base-10 integer: an optional minus sign and one or more decimal digits,
\* nothing before and nothing after.
IsIntegerToken(token) ==
    LET body == IF token # <<>> /\ token[1] = "-" THEN Tail(token) ELSE token
    IN body # <<>> /\ \A i \in 1..Len(body) : IsDecDigit(body[i])

\* Whether a is b with some elements left out.
RECURSIVE IsSubseq(_, _)
IsSubseq(a, b) ==
    IF a = <<>> THEN TRUE
    ELSE IF b = <<>> THEN FALSE
    ELSE IF a[1] = b[1] THEN IsSubseq(Tail(a), Tail(b))
    ELSE IsSubseq(a, Tail(b))

Styles == {"wiki", "markdown"}

\* The file the resolver gives for the parsed path of a match.
DestOfMatch(style, text, m, dest) ==
    getFirstLinkpathDest(dest, ParsedMatch(style, text, m).path)

\* The matches of a style whose parsed path resolves to image / does not.
TargetMatches(style, text, dest, image) ==
    LET IsTarget(m) == DestOfMatch(style, text, m, dest) = image
    IN SelectSeq(Matches(style, text), IsTarget)

OtherMatches(style, text, dest, image) ==
    LET IsOther(m) == DestOfMatch(style, text, m, dest) # image
    IN SelectSeq(Matches(style, text), IsOther)

\* The texts of the links of a style, in document order.
LinkTexts(style, text) ==
    LET ms == Matches(style, text)
    IN [k \in 1..Len(ms) |-> MatchText(text, ms[k])]

\* The parameter lists of the links of a style, in document order.
LinkParams(style, text) ==
    LET ms == Matches(style, text)
    IN [k \in 1..Len(ms) |-> ParsedMatch(style, text, ms[k]).params]

\* No wiki-style link shares a character with a markdown-style link.
NoOverlap(text) ==
    LET w == Matches("wiki", text)
        m == Matches("markdown", text)
    IN \A i \in 1..Len(w) : \A j \in 1..Len(m) :
           w[i].en < m[j].st \/ m[j].en < w[i].st

\* Every link of the text that does not resolve to the image is a link of the
\* output with the same text, in the same order.
OtherLinksKept ==
    \A style \in Styles :
        LET others == OtherMatches(style, rText, rDest, rImage)
        IN IsSubseq([k \in 1..Len(others) |-> MatchText(rText, others[k])],
                    LinkTexts(style, rOut))

\* A text without any link that resolves to the image comes back unchanged.
NothingToRewriteKept ==
    (\A style \in Styles : TargetMatches(style, rText, rDest, rImage) = <<>>)
        => rOut = rText

\* C1 as stated, for any document text: updateLinks leaves byte-identical every
\* wiki-style or markdown-style link whose parsed path resolves to another file
\* or to null; only links that resolve to the target are rewritten.
C1_SelectiveTargetingAnyText ==
    rPc = "done" => OtherLinksKept /\ NothingToRewriteKept

\* C1 amended: in a text in which no wiki-style link overlaps a markdown-style
\* link, updateLinks leaves byte-identical every link whose parsed path resolves
\* to another file or to null, and a text with no link to the target is returned
\* unchanged.
C1_SelectiveTargeting ==
    (rPc = "done" /\ NoOverlap(rText)) => OtherLinksKept /\ NothingToRewriteKept

\* C1 witness: the target's link is rewritten next to a link to another file.
C1_Witness ==
    /\ rPc = "done"
    /\ rImage = "a.png"
    /\ rText = S("![[a.png|50]]![alt](b.png)")
    /\ rOut = S("![[a.png|120]]![alt](b.png)")

\* C2 as stated: SetWidth replaces the last parameter with String(n) when that
\* parameter is an integer and otherwise appends String(n); earlier parameters
\* keep their value and position.
C2_SetWidthLastSlot ==
    tOp = "set" =>
        tParams = IF tBefore # <<>> /\ IsIntegerToken(Last(tBefore))
                  THEN Append(Front(tBefore), String(tWidth))
                  ELSE Append(tBefore, String(tWidth))

\* C3 as stated: RemoveWidth drops the last parameter when it is an integer and
\* returns the list unchanged otherwise.
C3_RemoveWidthLastSlot ==
    tOp = "remove" =>
        tParams = IF tBefore # <<>> /\ IsIntegerToken(Last(tBefore))
                  THEN Front(tBefore)
                  ELSE tBefore

\* Whether a text has a frontmatter block: it starts with "---\n" and has a
\* "\n---\n" at or after offset 4.
HasFrontmatter(text) ==
    StartsWith(text, S("---\n")) /\ IndexOfStr(text, S("\n---\n"), 5) # 0

\* The block, up to and including the closing delimiter.
FrontmatterBlock(text) ==
    SubSeq(text, 1, IndexOfStr(text, S("\n---\n"), 5) + 4)

\* C4 as stated: when the document has a frontmatter block, the text persisted
\* by updateImageLinks has that whole block byte-identical to the original, be
\* the original the text the call read or the text the write replaced; links
\* inside the block are not rewritten.
C4_FrontmatterImmunity ==
    (pc = "returned" /\ result = "true"
        /\ HasFrontmatter(docText) /\ HasFrontmatter(data))
    => \/ StartsWith(written, FrontmatterBlock(docText))
       \/ StartsWith(written, FrontmatterBlock(data))

\* The label of a rewritten markdown-style link: the first pipe-segment of the
\* description without its outer white space, or the base name of the image
\* when nothing is left.
MdLabel(description, image) ==
    LET first == Trim(Split(description, "|")[1])
    IN IF first = <<>> THEN Basename(image) ELSE first

\* The bracket text a rewritten markdown-style link is to have.
MdBracketText(description, image, tr) ==
    Join(<<MdLabel(description, image)>>
            \o ApplyTransform(tr, Tail(Split(description, "|"))), <<"|">>)

\* C11: every markdown-style link that resolves to the target comes out of the
\* markdown-style pass with the bracket text label|transformed parameters,
\* the label being the trimmed first pipe-segment of the description or the
\* base name of the target, and with no "|" in its parenthesised URL.
C11_MarkdownAltText ==
    rPc = "done" =>
        LET before == Matches("markdown", rWiki)
            after == Matches("markdown", rOut)
        IN /\ Len(after) = Len(before)
           /\ \A k \in 1..Len(before) :
                  DestOfMatch("markdown", rWiki, before[k], rDest) = rImage
                  => /\ MdDescription(rOut, after[k])
                          = MdBracketText(MdDescription(rWiki, before[k]),
                                          rImage, rTransform)
                     /\ "|" \notin Range(MdLinkPath(rOut, after[k]))

\* C11 witness: a description with white space, an attribute and a width, and
\* an empty description, both rewritten.
C11_Witness ==
    /\ rPc = "done"
    /\ rText = S("![ alt |left|50](a.png)![](a.png)")
    /\ rOut = S("![alt|left|120](a.png)![a|120](a.png)")

\* C5 as stated: for every wiki-link interior s, buildLinkPath(parseLinkComponents(s))
\* with no transform applied equals s.
C5_WikiRoundTrip ==
    (lPc = "built" /\ lUrl = <<>> /\ lTransform.kind = "none") => lBuilt = lMain

\* A URL in percent-encoded form: every "%" starts an escape, and every other
\* character is one encodeURIComponent leaves alone, a "/" or a "#".
InPercentEncodedForm(url) ==
    /\ ~DecodeThrows(url)
    /\ \A i \in 1..Len(url) : url[i] \in Unreserved \cup {"%", "/", "#"}

\* The part of a URL before its fragment.
UrlPathPart(url) ==
    LET j == IndexOfChar(url, "#", 1)
    IN IF j = 0 THEN url ELSE SubSeq(url, 1, j - 1)

\* C6 as stated: for every markdown URL u in percent-encoded form,
\* parseLinkComponents yields the percent-decoded path, and buildLinkPath with
\* parameters [] and encode = true reproduces u exactly.
C6_MarkdownRoundTrip ==
    (lPc = "built" /\ lUrl # <<>> /\ lTransform.kind = "none"
        /\ InPercentEncodedForm(lUrl[1]))
    => /\ lLink.path = DecodeFrom(UrlPathPart(lUrl[1]), 1)
       /\ lBuilt = lUrl[1]

\* No wheel event has written the document without zoom enabled, the held
\* flag set, the modifier down in the event and an image under the pointer.
WheelWritesGated ==
    wheelWrites > 0 =>
        /\ wheelWriteGate.enabled
        /\ wheelWriteGate.held
        /\ wheelWriteGate.down
        /\ wheelWriteGate.image

\* C15 as stated: a wheel event modifies the document only through the gate;
\* after a window blur, and after any wheel event that arrives without the
\* modifier, the held flag is false.
C15_WheelGatedAnyWheel ==
    /\ WheelWritesGated
    /\ wheelLast.type = "blur" => ~isModifierKeyHeld
    /\ (wheelLast.type = "wheel" /\ ~wheelLast.down) => ~isModifierKeyHeld

\* C15 amended: a wheel event modifies the document only through the gate;
\* after a window blur, and after a wheel event that arrives without the
\* modifier while wheel zoom is enabled, the held flag is false.
C15_WheelGated ==
    /\ WheelWritesGated
    /\ wheelLast.type = "blur" => ~isModifierKeyHeld
    /\ (wheelLast.type = "wheel" /\ ~wheelLast.down /\ wheelLast.enabled)
           => ~isModifierKeyHeld

\* C15 witness: two wheel events have written the document, and the last
\* event was a wheel event without the modifier that cleared the flag.
C15_Witness ==
    /\ wheelWrites = 2
    /\ wheelLast.type = "wheel"
    /\ wheelLast.enabled
    /\ ~wheelLast.down
    /\ ~isModifierKeyHeld

\* The links of a text in the order of the scan, all wiki-style links before any
\* markdown-style link, each with its place, its parsed path and its
\* parameters; at is the offset of the text within the document.
LinksInScanOrder(text, at) ==
    LET Of(style) ==
            LET ms == Matches(style, text)
            IN [k \in 1..Len(ms) |->
                   [style |-> style, at |-> ms[k].st + at,
                    path |-> ParsedMatch(style, text, ms[k]).path,
                    params |-> ParsedMatch(style, text, ms[k]).params]]
    IN Of("wiki") \o Of("markdown")

\* The width of the first link, in the order of the scan, that resolves to the
\* image and has a numeric last parameter; null (NaN) when there is none.
FirstTargetWidth(text, dest, image) ==
    LET links == LinksInScanOrder(text, 0)
        WidthOf(k) == IF getFirstLinkpathDest(dest, links[k].path) = image
                      THEN parseWidth(links[k].params) ELSE NaN
        hits == {k \in 1..Len(links) : ~WidthOf(k).nan}
    IN IF hits = {} THEN NaN ELSE WidthOf(Min(hits))

\* C16 as stated: getCurrentImageWidth returns the width of the first link
\* that resolves to the target and carries one, all wiki-style links coming
\* before any markdown-style link, and null when no link that resolves to the
\* target has a numeric last parameter.
C16_FirstMatchWidth ==
    (qPc = "done" /\ qEditor) => qWidth = FirstTargetWidth(qText, qDest, qImage)

\* What the rewriter hands to the resolver: the links of the document after
\* its frontmatter block, with their parsed paths.
RewriterScan(text) ==
    LET at == IF HasFrontmatter(text) THEN Len(FrontmatterBlock(text)) ELSE 0
        links == LinksInScanOrder(SubSeq(text, at + 1, Len(text)), at)
    IN [k \in 1..Len(links) |->
           [style |-> links[k].style, at |-> links[k].at, path |-> links[k].path]]

IsPrefix(a, b) == Len(a) <= Len(b) /\ a = SubSeq(b, 1, Len(a))

\* C17 as stated: the links getCurrentImageWidth hands to the resolver, up to
\* the one it stops at, are the links updateImageLinks hands to the resolver,
\* at the same places (frontmatter excluded) and with the same path strings.
C17_SameScanAsRewriter ==
    (qPc = "done" /\ qEditor) => IsPrefix(qAsked, RewriterScan(qText))

\* How often a character occurs in a text.
Count(text, ch) == Cardinality({i \in 1..Len(text) : text[i] = ch})

\* C19 as stated: the URL buildLinkPath gives with encode = true keeps every
\* "/" of the path as a separator, holds no space and no parenthesis, and put
\* between "![x](" and ")" it is one whole markdown-style image link whose URL
\* parses to the same path again.
C19_PathEncoding ==
    (lPc = "built" /\ lUrl # <<>>) =>
        LET text == S("![x](") \o lBuilt \o <<")">>
            ms == Matches("markdown", text)
            url == UrlPathPart(lBuilt)
        IN /\ Count(url, "/") = Count(lLink.path, "/")
           /\ Range(url) \cap {" ", "(", ")"} = {}
           /\ ms = <<[st |-> 1, en |-> Len(text)]>>
           /\ parseLinkComponents(S("x"), <<MdLinkPath(text, ms[1])>>).path = lLink.path

\* Every link of the text that resolves to the image has its transformed
\* parameters on a link of the same style of the output, in the same order.
TargetLinksTransformed ==
    \A style \in Styles :
        LET targets == TargetMatches(style, rText, rDest, rImage)
        IN IsSubseq([k \in 1..Len(targets) |->
                        ApplyTransform(rTransform,
                                       ParsedMatch(style, rText, targets[k]).params)],
                    LinkParams(style, rOut))

\* The end-to-end scenario: SetWidth(120) on the example body.
ExampleRewritten ==
    (rText = ExampleBody /\ rImage = "a.png" /\ rTransform = [kind |-> "set", n |-> 120])
        => rOut = S("![[a.png|120]] and ![alt|120](a.png)")

\* C7: after updateLinks every wiki-style and every markdown-style link of the
\* body that resolves to the target carries the transformed parameters, not
\* only the first one; with SetWidth(120) the example body becomes
\* "![[a.png|120]] and ![alt|120](a.png)".
C7_AllLinksUpdated ==
    rPc = "done" => TargetLinksTransformed /\ ExampleRewritten

\* C7 witness: the example body, both links rewritten.
C7_Witness ==
    /\ rPc = "done"
    /\ rText = ExampleBody
    /\ rOut = S("![[a.png|120]] and ![alt|120](a.png)")

\* The text of a link from its first "#" to its end.
FragmentOf(text) ==
    LET j == IndexOfChar(text, "#", 1)
    IN IF j = 0 THEN <<>> ELSE SubSeq(text, j, Len(text))

\* C8 as stated: the text from the first "#" of a rewritten link to its end is
\* the same before and after SetWidth or RemoveWidth, for both styles.
C8_FragmentVerbatim ==
    (lPc = "built" /\ lTransform.kind # "none")
    => FragmentOf(lBuilt) = FragmentOf(IF lUrl = <<>> THEN lMain ELSE lUrl[1])

\* C9: applying SetWidth(n) a second time in a row leaves the parameter list
\* as the first application made it.
C9_SetWidthIdempotent == tRepeat = 2 => tParams = tBefore

\* C9 witness: SetWidth(300) was applied twice to a list it first appended to.
C9_Witness ==
    /\ tRepeat = 2
    /\ tWidth = 300
    /\ tParams = <<S("align-left"), S("300")>>

\* Whether the last operation treated the last parameter as the width.
TreatedAsWidth ==
    IF tOp = "set" THEN Len(tParams) = Len(tBefore)
    ELSE IF tOp = "remove" THEN Len(tParams) < Len(tBefore)
    ELSE ~tQuery.nan

\* C10 as stated: the last parameter is treated as the width if and only if it
\* is a base-10 integer, for SetWidth, RemoveWidth and the width query alike.
C10_WidthConvention ==
    (tOp \in {"set", "remove", "query"} /\ tBefore # <<>>)
    => (TreatedAsWidth <=> IsIntegerToken(Last(tBefore)))

(***************************************************************************)
(* Resizing from the menu and by the wheel                                 *)
(***************************************************************************)
\* n is num/den rounded to the nearest integer, halves up (den > 0).
IsRoundHalfUp(n, num, den) ==
    /\ 2 * den * n <= 2 * num + den
    /\ 2 * num + den < 2 * den * (n + 1)

\* The widths the links to the image carry in a text.
TargetWidths(text) ==
    {parseWidth(ParsedMatch(style, text, m).params) :
        m \in UNION {Range(TargetMatches(style, text, NoteDest, ImgFile)) :
                        style \in Styles},
        style \in Styles} \ {NaN}

\* None of the reasons for which a resize cannot proceed holds.
CanProceed ==
    /\ activeFileNow = ActiveNote
    /\ markdownViewNow
    /\ imgTarget = "resolved"
    /\ ~op.readFailed

\* A resize from the menu has run to its end.
MenuResized == op.kind = "menu" /\ op.pc = "done" /\ CanProceed

\* A wheel event has been handled to its end.
WheelHandled == op.kind = "wheel" /\ op.pc = "done" /\ CanProceed

\* The links to the image all carry the width n.
ResizedTo(n) == TargetWidths(noteText) = {Num(n)}

\* What resizeImage is to write when the image width is W.
ResizeWrites(W) ==
    IF op.isAbsolute THEN ResizedTo(op.size)
    ELSE \E n \in 0..(2 * W) : IsRoundHalfUp(n, W * op.size, 100) /\ ResizedTo(n)

\* C12 as stated: resizeImage(img, P) writes round(W * P / 100), halves up,
\* W being the pixel width of the image file; with isAbsolute the pixel
\* value is written unchanged.
C12_ResizeFromFileWidth == MenuResized => ResizeWrites(op.diskAtRead)

\* C12 amended: resizeImage(img, P) writes round(W * P / 100), halves up, W
\* being the width in the dimension cache (the width of the file when it was
\* first read); with isAbsolute the pixel value is written unchanged.
C12_ResizeFromCachedWidth == MenuResized => ResizeWrites(dimensionCache[ImgFile])

\* C12 witness: a 10px-wide image whose link carries 500 is resized to 25%,
\* and the link carries 3.
C12_Witness ==
    /\ MenuResized
    /\ op.size = 25
    /\ ~op.isAbsolute
    /\ dimensionCache[ImgFile] = 10
    /\ op.textBefore = S("![[a.png|500]]")
    /\ noteText = S("![[a.png|3]]")

\* The current width of a handled wheel event: the width of the first link
\* to the image that has one, else the width readImageDimensions gave.
CurrentWidthBefore ==
    LET custom == FirstTargetWidth(op.textBefore, NoteDest, ImgFile)
    IN IF custom.nan THEN op.width ELSE custom.val

\* The widths the wheel event has written.
WrittenWidths ==
    IF noteText = op.textBefore THEN {}
    ELSE {w.val : w \in TargetWidths(noteText)}

WheelDirection ==
    LET grows == IF invertScrollDirection THEN op.deltaY > 0 ELSE op.deltaY < 0
        shrinks == IF invertScrollDirection THEN op.deltaY < 0 ELSE op.deltaY > 0
    IN /\ grows => \A w \in WrittenWidths : w >= CurrentWidthBefore
       /\ shrinks => \A w \in WrittenWidths : w <= CurrentWidthBefore

WheelWrote(n) ==
    IF n = CurrentWidthBefore THEN noteText = op.textBefore ELSE ResizedTo(n)

C20_FailuresReported ==
    (op.kind \in {"menu", "wheel"} /\ op.pc = "done" /\ ~CanProceed) =>
        /\ noteText = op.textBefore
        /\ dimensionCache = op.cacheBefore
        /\ notices # {}

(***************************************************************************)
(* The dimension cache                                                     *)
(***************************************************************************)
\* A step keeps the entry of the image file as it is.
EntryKept ==
    /\ ImgFile \in DOMAIN dimensionCache'
    /\ dimensionCache'[ImgFile] = dimensionCache[ImgFile]

\* A call that starts in this step returns the entry at once.
CallsReadThrough ==
    \A call \in DOMAIN reads :
        (reads[call].pc = "idle" /\ reads'[call].pc # "idle")
            => reads'[call] = [pc |-> "done", data |-> 0, result |-> dimensionCache[ImgFile]]

\* C18: once an entry is stored for a path, every later call for the path
\* returns that entry without reading the file, and no step other than the
\* clear in onunload changes or removes the entry.
C18_CacheImmutable ==
    [][(ImgFile \in DOMAIN dimensionCache) =>
           (CallsReadThrough /\ ((unloaded' = unloaded) => EntryKept))]_vars

(***************************************************************************)
(* updateImageLinks: reads, writes and what it returns                     *)
(***************************************************************************)
\* One step of a call of updateImageLinks keeps to "no write without a
\* change".
WritesOnlyChanges ==
    /\ (pc = "read" /\ pc' # "read") =>
           /\ pc' = "process" <=> replacedText' # ContentWithoutFrontmatter(docText')
           /\ pc' # "process" =>
                  (pc' = "returned" /\ result' = "false" /\ fileText' = fileText)
    /\ (fileText' # fileText /\ edits' = edits) =>
           (pc = "process" /\ pc' = "returned" /\ result' = "true")
    /\ (pc' = "returned" /\ pc # "returned" /\ result' = "true") =>
           (pc = "process" /\ fileText' = written')
    /\ (pc = "idle" /\ pc' # "idle" /\ activeFile = imageFileArg') =>
           /\ pc' = "returned"
           /\ result' = "false"
           /\ UNCHANGED <<fileText, docText, data, written>>

\* C21: updateImageLinks calls vault.process if and only if the rewritten
\* body differs from the body it read, and returns true exactly when it
\* wrote; with the image file itself as the active file it returns false
\* without reading or writing.
C21_NoWriteWithoutChange == [][WritesOnlyChanges]_vars

\* C21 witness: a second call has read a body that its transform leaves as
\* it is and has returned false, after a first call that wrote.
C21_Witness ==
    /\ pc = "returned"
    /\ result = "false"
    /\ calls = 2
    /\ activeFile = ActiveNote
    /\ imageFileArg = "a.png"
    /\ written # <<>>
    /\ fileText = written
    /\ docText = fileText
    /\ replacedText = ContentWithoutFrontmatter(docText)

(***************************************************************************)
(* Links without a path                                                    *)
(***************************************************************************)
\* The texts of the links of one style whose parsed path is empty.
EmptyPathLinkTexts(style, text) ==
    LET IsEmpty(m) == ParsedMatch(style, text, m).path = <<>>
        ms == SelectSeq(Matches(style, text), IsEmpty)
    IN [k \in 1..Len(ms) |-> MatchText(text, ms[k])]

\* C22: a link whose parsed path is empty appears byte-identical in the
\* output of updateLinks, whatever the resolver returns for the empty path.
C22_EmptyPathSkipped ==
    rPc = "done" =>
        \A style \in Styles :
            IsSubseq(EmptyPathLinkTexts(style, rText), LinkTexts(style, rOut))

(***************************************************************************)
(* Markdown URLs that are not validly percent-encoded                      *)
(***************************************************************************)
\* The markdown-style links of a text whose URL decodeURIComponent rejects.
UndecodableMatches(text) ==
    LET Rejected(m) == DecodeThrows(MdLinkPath(text, m))
    IN SelectSeq(Matches("markdown", text), Rejected)

\* C23: when the URL of a markdown link is not validly percent-encoded, the
\* parsed path is the raw URL text (up to its fragment), updateLinks runs to
\* its end, and the link stays byte-identical when it does not resolve to
\* the target.
C23_DecodeFailureFallsBack ==
    rPc = "done" =>
        LET bad == UndecodableMatches(rText)
            others == SelectSeq(bad,
                          LAMBDA m : DestOfMatch("markdown", rText, m, rDest) # rImage)
        IN /\ \A k \in 1..Len(bad) :
                  ParsedMatch("markdown", rText, bad[k]).path
                      = SplitLimit(MdLinkPath(rText, bad[k]), "#", 2)[1]
           /\ IsSubseq([k \in 1..Len(others) |-> MatchText(rText, others[k])],
                       LinkTexts("markdown", rOut))

\* C23 witness: the link to the target is rewritten next to links whose URLs
\* cannot be decoded, and those are as they were.
C23_Witness ==
    /\ rPc = "done"
    /\ rText = S("![alt|50](a.png)![alt|50](50%.png#h)")
    /\ rOut = S("![alt|120](a.png)![alt|50](50%.png#h)")

(***************************************************************************)
(* Wheel events in quick succession                                        *)
(***************************************************************************)
\* The calls of handleImageWheel that are between the vault.read and the end
\* of the vault.process of their updateImageLinks.
TasksUpdating == {task \in DOMAIN tasks : tasks[task].pc \in {"read", "process"}}

\* C24: of the wheel events that arrive within one debounce interval at most
\* one starts a resize, and no document update is started by a wheel event
\* while the update of an earlier one is between its read and its write.
C24_WheelDebounced ==
    /\ burstStarted <= 1
    /\ Cardinality(TasksUpdating) <= 1

(***************************************************************************)
(* Listeners                                                               *)
(***************************************************************************)
\* C25: whatever the number of layout-change events, at most one wheel, one
\* keydown, one keyup and one blur listener of the plugin is active, and
\* none is once the plugin is unloaded.
C25_ListenersCleanedUp ==
    /\ \A type \in ListenerTypes : listeners[type] <= 1
    /\ unloaded => \A type \in ListenerTypes : listeners[type] = 0

(***************************************************************************)
(* A change of the note between vault.read and vault.process               *)
(***************************************************************************)
\* C26: when the note has changed between the vault.read and the
\* vault.process of a call, what the call writes still has the change (its
\* body is the rewritten body of the note as it was at write time) and
\* starts with the frontmatter block the note had at write time.
C26_NoLostUpdate ==
    (pc = "returned" /\ result = "true" /\ data # docText)
    => /\ HasFrontmatter(data) => StartsWith(written, FrontmatterBlock(data))
       /\ ContentWithoutFrontmatter(written) =
              updateLinks(ContentWithoutFrontmatter(data), NoteDest, imageFileArg,
                          transform)

(***************************************************************************)
(* The width read back after it was set                                    *)
(***************************************************************************)
\* Whether updateLinks finds a link to the image in the text: the links it
\* rewrites are the ones that resolve to it.
HasLinkTo(text, dest, image) ==
    updateLinks(text, dest, image, [kind |-> "set", n |-> 1])
        # updateLinks(text, dest, image, [kind |-> "set", n |-> 2])

\* C27: after updateImageLinkWidth(file, n) on a document whose body has a
\* link resolving to the image, getCurrentImageWidth on the text written
\* gives n.
C27_SetThenQuery ==
    (qPc = "done" /\ rTransform.kind = "set"
        /\ HasLinkTo(ContentWithoutFrontmatter(rText), rDest, rImage))
    => qWidth = Num(rTransform.n)

(***************************************************************************)
(* Removing a width that is not there                                      *)
(***************************************************************************)
\* No link of the text that resolves to the image has a last parameter that
\* removeImageWidth takes for a width.
NoTargetWidth(text, dest, image) ==
    \A style \in Styles :
        LET targets == TargetMatches(style, text, dest, image)
        IN \A k \in 1..Len(targets) :
               ~LastParamIsNumber(ParsedMatch(style, text, targets[k]).params)

\* C28: when no link resolving to the image has a width as its last
\* parameter, removeImageWidth leaves the document byte-identical (and so
\* writes nothing), for wiki-style and markdown-style links alike.
C28_RemoveMissingWidthNoOp ==
    (rPc = "done" /\ rTransform.kind = "remove" /\ NoTargetWidth(rText, rDest, rImage))
    => rOut = rText

(***************************************************************************)
(* The lower bound of a wheel step                                         *)
(***************************************************************************)
\* C29: the width a wheel step writes is at least 1 and is not the width
\* the step started from, whatever width the link had (0 and negative
\* numbers included), whatever the percentage and the direction.
C29_WheelLowerBound ==
    (op.kind = "wheel" /\ op.pc = "done" /\ noteText # op.textBefore)
    => /\ op.newWidth >= 1
       /\ op.newWidth #
              wheelCurrentWidth(getCurrentImageWidth(op.textBefore, NoteDest,
                                                     ImgFile).width, op.width)

(***************************************************************************)
(* The rename prompt                                                       *)
(***************************************************************************)
\* C30: however the rename modal is closed, its onSubmit callback has been
\* invoked exactly once and the promise of promptForNewName is settled, so
\* that renameImage goes on to return; the file has a new name only when a
\* non-empty name other than the original one was submitted.
C30_RenamePromptCompletes ==
    /\ modal = "closed" => onSubmitCalls = 1 /\ promise.state = "resolved"
    /\ (renamePc = "returned" /\ fileName # originalName)
           => /\ fileName = Trim(inputValue)
              /\ fileName # <<>>

====
